---- MODULE Spec2Model ----
(***************************************************************************)
(* Model of plotman's archive monitor: the polling loop of                 *)
(* archive_monitor.curses_main and the ingress job registry it rebuilds    *)
(* every cycle with IngressArchiveJob.get_archive_running_jobs, together   *)
(* with the estimators of IngressArchiveJob (progress, rate, ETA).         *)
(*                                                                         *)
(* Time is the wall clock in whole seconds.  The clock is read at the top  *)
(* of a loop iteration and once more when the records of a cycle are       *)
(* built, after the listing has returned; the records of one cycle share   *)
(* that second reading.                                                    *)
(*                                                                         *)
(* Six specifications share the module.  Spec is the loop, with listing    *)
(* lines reduced to what the loop body asks of them.  SpecListing runs the *)
(* ingress call on listings given as text, SpecEgress runs                 *)
(* EgressArchiveJob.get_archive_running_jobs and progress on command       *)
(* lines given as text, and SpecHeap runs the loop with the registry held  *)
(* as objects in a heap.  In these three the variables call and ret hold   *)
(* the call studied and its outcome.  SpecLog runs the calls of the Log of *)
(* interactive.py, and SpecInteractive the loop of interactive.curses_main *)
(* with its flags, its keys and its log.                                   *)
(***************************************************************************)
EXTENDS Integers, Sequences, FiniteSets, TLC

\* ------------------------------------------------------------------ bounds

\* Full refreshes (polling cycles) explored.
MaxCycles == 3
\* Lines in one listing of the filesystem probe.
MaxLines == 2
\* Lines the probe writes to its error stream.
MaxErrLines == 1
\* Lines in the listing of a probe that also writes to its error stream.
MaxLinesWithErr == 1
\* Transfer processes in the process table.
MaxProcs == 2
\* Readings of progress() after the first.
MaxReads == 2
\* Lines in a listing given as text.
MaxTextLines == 2
\* Cycles of the loop whose registry is held in a heap, and lines in one of
\* its listings.
MaxHeapCycles == 3
MaxHeapLines == 2

\* Seconds that may pass between two loop iterations.
ClockSteps == {0, 5}
\* Seconds a completed listing may take.
ProbeSteps == {0, 10}
\* Byte counts a listing may report for a file.
Sizes == {1000000, 3000000}

\* ------------------------------------------------------- program constants

\* cfg.scheduling.polling_time_s, the configured polling period.
polling_time_s == 10
\* The time limit of the listing subprocess.
timeout == 40

\* Optional values: None is the empty sequence, Some(x) a one-element one.
None == <<>>
Some(x) == <<x>>

\* ----------------------------------------------------------- probe output

\* The marker files that can be in flight under the archive root: the fields
\* the filename pattern extracts from the path of each.  The third file has
\* the job id of the first under another disk index.
Files ==
    { [disk |-> 1, plot_k |-> 17, plot_id |-> "p1", job_id |-> "a"],
      [disk |-> 2, plot_k |-> 18, plot_id |-> "p2", job_id |-> "b"],
      [disk |-> 2, plot_k |-> 17, plot_id |-> "p1", job_id |-> "a"] }

JobIds == {f.job_id : f \in Files}

\* One line of the listing, as line.split() and the pattern see it:
\* ntok tokens; space_int says whether token 6 is an integer literal and
\* space is its value; re_match says whether token 10 matches the pattern;
\* date_ok whether its date fields form a date datetime() accepts, and
\* plot_timestamp is the POSIX time of that date; is_local says whether a
\* transfer process of this host names the plot id.  The files of the loop
\* are dated at the epoch and no transfer process runs beside the loop.
FileLine(f, n) ==
    [ntok |-> 11, space_int |-> TRUE, space |-> n, re_match |-> TRUE,
     date_ok |-> TRUE, disk |-> f.disk, plot_k |-> f.plot_k,
     plot_timestamp |-> 0, plot_id |-> f.plot_id, job_id |-> f.job_id,
     is_local |-> FALSE]

Junk(ntok, space_int, re_match, date_ok) ==
    [ntok |-> ntok, space_int |-> space_int, space |-> 0, re_match |-> re_match,
     date_ok |-> date_ok, disk |-> 0, plot_k |-> 0, plot_timestamp |-> 0,
     plot_id |-> "", job_id |-> "", is_local |-> FALSE]

\* A line of another shape (a path with blanks, a wrapped line).
ShortLine == Junk(12, TRUE, FALSE, TRUE)
\* An eleven-token line whose path is not a marker file of the grammar.
NoMatchLine == Junk(11, TRUE, FALSE, TRUE)
\* An eleven-token line whose size column is not an integer literal.
BadSizeLine == Junk(11, FALSE, FALSE, TRUE)
\* A path of the right digit widths whose date does not exist (month 13).
BadDateLine ==
    [FileLine(CHOOSE f \in Files : f.job_id = "b", 1000000) EXCEPT !.date_ok = FALSE]

Lines ==
    {FileLine(f, n) : f \in Files, n \in Sizes}
        \cup {ShortLine, NoMatchLine, BadSizeLine, BadDateLine}

SeqsUpTo(S, n) == UNION {[1..k -> S] : k \in 0..n}

\* A listing names a file at most once.
Listings ==
    {l \in SeqsUpTo(Lines, MaxLines) :
        \A i, j \in DOMAIN l :
            (i # j /\ l[i].re_match /\ l[j].re_match)
                => <<l[i].disk, l[i].job_id>> # <<l[j].disk, l[j].job_id>>}

\* The error stream: lines that hold text and lines of white space only.
ErrStreams == SeqsUpTo({"text", "blank"}, MaxErrLines)

\* What one run of the listing subprocess gives.
Probes ==
    [timed_out : {TRUE}, stdout : {<<>>}, stderr : {<<>>}]
        \cup [timed_out : {FALSE}, stdout : Listings, stderr : {<<>>}]
        \cup [timed_out : {FALSE},
              stdout : {l \in Listings : Len(l) <= MaxLinesWithErr},
              stderr : ErrStreams]

NoProbe == [timed_out |-> FALSE, stdout |-> <<>>, stderr |-> <<>>]

\* ------------------------------------------------------------ arithmetic

Abs(n) == IF n < 0 THEN -n ELSE n

Min(S) == CHOOSE x \in S : \A y \in S : x <= y

\* A float quotient n / d (d # 0), kept exact as a fraction with den > 0.
Rat(n, d) == IF d < 0 THEN [num |-> -n, den |-> -d] ELSE [num |-> n, den |-> d]

RatLess(a, b) == a.num * b.den < b.num * a.den

RatEq(a, b) == a.num * b.den = b.num * a.den

RatOne == [num |-> 1, den |-> 1]

\* int(a / b): the quotient truncated towards zero.
TruncDiv(a, b) ==
    LET q == Abs(a) \div Abs(b)
    IN  IF (a < 0) # (b < 0) THEN -q ELSE q

\* ------------------------------------------------------------------- text

\* A str is the sequence of its characters.  The characters that occur in
\* the command lines, paths and listings drawn below.
Digits == <<"0", "1", "2", "3", "4", "5", "6", "7", "8", "9">>
Digit == {Digits[i] : i \in DOMAIN Digits}
Letter == {"a", "b", "c", "d", "e", "f", "g", "h", "i", "j", "k", "l", "m",
           "n", "o", "p", "q", "r", "s", "t", "u", "v", "w", "x", "y", "z"}
\* \w (and [\w\d], which is the same class)
Word == Letter \cup Digit \cup {"_"}
\* \S
NonSpace == Word \cup {"/", ".", "-", "+", ":", "@", "="}
\* . in a pattern
AnyChar == NonSpace \cup {" "}

\* str.strip()
RECURSIVE strip(_)
strip(s) ==
    IF s # <<>> /\ Head(s) = " " THEN strip(Tail(s))
    ELSE IF s # <<>> /\ s[Len(s)] = " " THEN strip(SubSeq(s, 1, Len(s) - 1))
    ELSE s

\* str.split(sep) for a separator of one character.
RECURSIVE split_on(_, _)
split_on(s, sep) ==
    LET at == {i \in DOMAIN s : s[i] = sep}
    IN  IF at = {} THEN <<s>>
        ELSE <<SubSeq(s, 1, Min(at) - 1)>>
                \o split_on(SubSeq(s, Min(at) + 1, Len(s)), sep)

\* sep.join(parts)
RECURSIVE join(_, _)
join(sep, parts) ==
    IF parts = <<>> THEN <<>>
    ELSE IF Len(parts) = 1 THEN parts[1]
    ELSE parts[1] \o sep \o join(sep, Tail(parts))

\* needle in s, for a needle that is not empty
in_str(needle, s) ==
    \E i \in 1..(Len(s) - Len(needle) + 1) :
        SubSeq(s, i, i + Len(needle) - 1) = needle

\* Whether int(s) accepts s: after strip(), an optional sign, then digits
\* that single underscores may separate.
is_int_literal(s) ==
    LET t == strip(s)
        u == IF t # <<>> /\ Head(t) \in {"+", "-"} THEN Tail(t) ELSE t
    IN  /\ u # <<>>
        /\ \A i \in DOMAIN u : u[i] \in Digit \cup {"_"}
        /\ u[1] \in Digit
        /\ u[Len(u)] \in Digit
        /\ \A i \in 1..(Len(u) - 1) : ~(u[i] = "_" /\ u[i + 1] = "_")

RECURSIVE digits_value(_)
digits_value(u) ==
    IF u = <<>> THEN 0
    ELSE LET last == u[Len(u)]
             front == digits_value(SubSeq(u, 1, Len(u) - 1))
         IN  IF last = "_" THEN front
             ELSE 10 * front + (CHOOSE i \in DOMAIN Digits : Digits[i] = last) - 1

\* int(s), for an s that int() accepts.
int(s) ==
    LET t == strip(s)
    IN  IF Head(t) = "-" THEN -digits_value(Tail(t))
        ELSE IF Head(t) = "+" THEN digits_value(Tail(t))
        ELSE digits_value(t)

\* ----------------------------------------------------------------- patterns

\* A pattern of the re module, of the kind the program uses: ^ items $,
\* where an item is a character class taken lo times (many = FALSE) or lo
\* times or more, greedily (many = TRUE).
lit(s) == [i \in DOMAIN s |-> [cls |-> {s[i]}, lo |-> 1, many |-> FALSE]]
rep(cls, n) == <<[cls |-> cls, lo |-> n, many |-> FALSE]>>
plus(cls) == <<[cls |-> cls, lo |-> 1, many |-> TRUE]>>

\* The items of a text that is put into a pattern as it is: "." stands for
\* any character and "+" repeats the item before it; the other characters
\* of the texts drawn here stand for themselves.  (A "+" follows a
\* character other than "+" in every such text.)
RECURSIVE as_pattern(_)
as_pattern(s) ==
    IF s = <<>> THEN <<>>
    ELSE LET item == [cls |-> IF Head(s) = "." THEN AnyChar ELSE {Head(s)},
                      lo |-> 1, many |-> FALSE]
             rest == Tail(s)
         IN  IF rest # <<>> /\ Head(rest) = "+"
             THEN <<[item EXCEPT !.many = TRUE]>> \o as_pattern(Tail(rest))
             ELSE <<item>> \o as_pattern(rest)

\* The characters of cls that text holds in a row from pos on.
RECURSIVE run_of(_, _, _)
run_of(cls, text, pos) ==
    IF pos <= Len(text) /\ text[pos] \in cls
    THEN 1 + run_of(cls, text, pos + 1)
    ELSE 0

\* The match of the items from the i-th on against text from pos to its
\* end: None, or Some(the length each item took), the first one the
\* backtracking search finds (an item gives characters back one at a time).
RECURSIVE re_from(_, _, _, _)
RECURSIVE re_try(_, _, _, _, _)
re_from(pat, i, text, pos) ==
    IF i > Len(pat)
    THEN IF pos = Len(text) + 1 THEN Some(<<>>) ELSE None
    ELSE LET avail == run_of(pat[i].cls, text, pos)
         IN  re_try(pat, i, text, pos,
                    IF pat[i].many \/ avail < pat[i].lo THEN avail ELSE pat[i].lo)

re_try(pat, i, text, pos, n) ==
    IF n < pat[i].lo THEN None
    ELSE LET r == re_from(pat, i + 1, text, pos + n)
         IN  IF r # None THEN Some(<<n>> \o r[1])
             ELSE re_try(pat, i, text, pos, n - 1)

\* re.search(pat, text) for a pattern anchored at both ends.
re_search(pat, text) == re_from(pat, 1, text, 1)

RECURSIVE sum_to(_, _)
sum_to(lens, n) == IF n = 0 THEN 0 ELSE lens[n] + sum_to(lens, n - 1)

\* The characters the i-th item took in a match.
taken(text, lens, i) ==
    SubSeq(text, sum_to(lens, i - 1) + 1, sum_to(lens, i))

\* --------------------------------------------------------------- datetime

is_leap(year) == year % 4 = 0 /\ (year % 100 # 0 \/ year % 400 = 0)

days_in_month(year, month) ==
    IF month = 2 THEN (IF is_leap(year) THEN 29 ELSE 28)
    ELSE IF month \in {4, 6, 9, 11} THEN 30 ELSE 31

\* Whether datetime(year, month, day, hour, minute) is a date; it raises
\* ValueError otherwise.
datetime_ok(year, month, day, hour, minute) ==
    /\ year \in 1..9999
    /\ month \in 1..12
    /\ day \in 1..days_in_month(year, month)
    /\ hour \in 0..23
    /\ minute \in 0..59

RECURSIVE days_before_month(_, _)
days_before_month(year, month) ==
    IF month = 1 THEN 0
    ELSE days_before_month(year, month - 1) + days_in_month(year, month - 1)

\* The days from 1970-01-01 to the date.
days_since_epoch(year, month, day) ==
    LET y == year - 1
    IN  365 * y + (y \div 4) - (y \div 100) + (y \div 400)
            + days_before_month(year, month) + day - 1 - 719162

\* datetime.timestamp(datetime(year, month, day, hour, minute)), on a host
\* whose local time is UTC.
datetime_timestamp(year, month, day, hour, minute) ==
    (days_since_epoch(year, month, day) * 24 + hour) * 3600 + minute * 60

\* ------------------------------------------------------------ plot sizes

\* plot_util.get_plotsize: the expected size in bytes of a plot of size
\* class k, a fixed value per class that grows as k * 2^k.
get_plotsize(k) == (78 * k * (2 ^ k)) \div 100

\* ------------------------------------------------------ IngressArchiveJob

\* IngressArchiveJob.__init__; timestamp is the clock when the record is
\* built.
IngressArchiveJob(job_id, plot_id, plot_k, plot_timestamp, disk, is_local, transferred_bytes, prev_transferred_bytes, timestamp) ==
    [job_id |-> job_id, plot_id |-> plot_id, plot_k |-> plot_k,
     plot_timestamp |-> plot_timestamp, disk |-> disk, is_local |-> is_local,
     transferred_bytes |-> transferred_bytes,
     prev_transferred_bytes |-> prev_transferred_bytes,
     timestamp |-> timestamp]

\* A progress without the clamp at one.
progress_unclamped(job) ==
    Rat(job.transferred_bytes, get_plotsize(job.plot_k))

\* min(transferred_bytes / get_plotsize(plot_k), 1)
progress(job) ==
    LET q == Rat(job.transferred_bytes, get_plotsize(job.plot_k))
    IN  IF RatLess(RatOne, q) THEN RatOne ELSE q

\* sorted(prev_transferred_bytes, key = timestamp)[0]: the sample of the
\* least timestamp, the first of them in list order (the sort is stable).
OldestSample(h) ==
    h[CHOOSE i \in DOMAIN h :
        \A j \in DOMAIN h :
            h[i][1] < h[j][1] \/ (h[i][1] = h[j][1] /\ i <= j)]

\* A rate estimator that takes the most recent sample as its baseline.
estimated_transfer_rate_newest(job) ==
    IF Len(job.prev_transferred_bytes) = 0 THEN None
    ELSE LET prev == job.prev_transferred_bytes[1]
             seconds == job.timestamp - prev[1]
         IN  IF seconds = 0 THEN None
             ELSE Some(Rat(job.transferred_bytes - prev[2], seconds))

\* A rate estimator that has no estimate when no byte arrived.
estimated_transfer_rate_stalled(job) ==
    IF Len(job.prev_transferred_bytes) = 0 THEN None
    ELSE LET prev == OldestSample(job.prev_transferred_bytes)
             seconds == job.timestamp - prev[1]
             bytes_delta == job.transferred_bytes - prev[2]
         IN  IF seconds = 0 \/ bytes_delta = 0 THEN None
             ELSE Some(Rat(bytes_delta, seconds))

\* A rate estimator that divides by at least one second.
estimated_transfer_rate_floor1(job) ==
    IF Len(job.prev_transferred_bytes) = 0 THEN None
    ELSE LET prev == OldestSample(job.prev_transferred_bytes)
             seconds == job.timestamp - prev[1]
         IN  Some(Rat(job.transferred_bytes - prev[2],
                      IF seconds = 0 THEN 1 ELSE seconds))

estimated_transfer_rate(job) ==
    IF Len(job.prev_transferred_bytes) = 0 THEN None
    ELSE LET prev == OldestSample(job.prev_transferred_bytes)
             seconds == job.timestamp - prev[1]
         IN  IF seconds = 0 THEN None
             ELSE LET bytes_delta == job.transferred_bytes - prev[2]
                  IN  Some(Rat(bytes_delta, seconds))

\* An ETA without the clamp at zero.
estimated_remaining_time_unclamped(job) ==
    LET rate == estimated_transfer_rate(job)
    IN  IF rate = None \/ rate[1].num = 0 THEN None
        ELSE LET left == get_plotsize(job.plot_k) - job.transferred_bytes
             IN  Some(TruncDiv(left * rate[1].den, rate[1].num))

\* int(left / rate) is int(left * den / num) for rate = num / den.
estimated_remaining_time(job) ==
    LET rate == estimated_transfer_rate(job)
    IN  IF rate = None \/ rate[1].num = 0 THEN None
        ELSE LET left == get_plotsize(job.plot_k) - job.transferred_bytes
                 eta == TruncDiv(left * rate[1].den, rate[1].num)
             IN  Some(IF eta > 0 THEN eta ELSE 0)

\* --------------------------------- IngressArchiveJob.get_archive_running_jobs

\* str.strip() of the decoded error stream, then splitlines(): leading and
\* trailing white space goes, so a stream of blank lines has no line left.
RECURSIVE lstrip(_)
lstrip(text) ==
    IF text # <<>> /\ Head(text) = "blank" THEN lstrip(Tail(text)) ELSE text

RECURSIVE rstrip(_)
rstrip(text) ==
    IF text # <<>> /\ text[Len(text)] = "blank"
    THEN rstrip(SubSeq(text, 1, Len(text) - 1))
    ELSE text

stderr_lines(text) == rstrip(lstrip(text))

\* A history lookup that forgets the previous observation itself.
carried_history_unprepended(prev_jobs, job_id) ==
    LET found == {i \in DOMAIN prev_jobs : prev_jobs[i].job_id = job_id}
    IN  IF found = {} THEN <<>>
        ELSE prev_jobs[Min(found)].prev_transferred_bytes

\* A history lookup that gives a job it does not find a sample of no bytes
\* at clock zero.
carried_history_from_zero(prev_jobs, job_id) ==
    LET found == {i \in DOMAIN prev_jobs : prev_jobs[i].job_id = job_id}
    IN  IF found = {} THEN <<<<0, 0>>>>
        ELSE LET job == prev_jobs[Min(found)]
             IN  <<<<job.timestamp, job.transferred_bytes>>>>
                     \o job.prev_transferred_bytes

\* A history lookup that takes the last previous record of the job id.
carried_history_of_last(prev_jobs, job_id) ==
    LET found == {i \in DOMAIN prev_jobs : prev_jobs[i].job_id = job_id}
    IN  IF found = {} THEN <<>>
        ELSE LET job == prev_jobs[CHOOSE i \in found : \A k \in found : k <= i]
             IN  <<<<job.timestamp, job.transferred_bytes>>>>
                     \o job.prev_transferred_bytes

\* A history lookup that puts the previous observation last.
carried_history_appended(prev_jobs, job_id) ==
    LET found == {i \in DOMAIN prev_jobs : prev_jobs[i].job_id = job_id}
    IN  IF found = {} THEN <<>>
        ELSE LET job == prev_jobs[Min(found)]
             IN  job.prev_transferred_bytes
                     \o <<<<job.timestamp, job.transferred_bytes>>>>

\* next(([(job.timestamp, job.transferred_bytes)] + job.prev_transferred_bytes
\*       for job in prev_jobs if job.job_id == job_id), [])
carried_history(prev_jobs, job_id) ==
    LET found == {i \in DOMAIN prev_jobs : prev_jobs[i].job_id = job_id}
    IN  IF found = {} THEN <<>>
        ELSE LET job == prev_jobs[Min(found)]
             IN  <<<<job.timestamp, job.transferred_bytes>>>>
                     \o job.prev_transferred_bytes

\* The result of a call: the exception it raised, if any, and the list it
\* returned otherwise.
Raised(exc) == [raised |-> Some(exc), jobs |-> <<>>]
Returned(jobs) == [raised |-> None, jobs |-> jobs]

\* path: the configured destination, stripped, with one "/" at its end
\* unless it has one.
find_path(dest) ==
    LET d == strip(dest)
    IN  IF d # <<>> /\ d[Len(d)] = "/" THEN d ELSE d \o <<"/">>

\* rf"^{path}(\d{{3}})/\.plot-k(\d{{2}})-(\d{{4}})-(\d{{2}})-(\d{{2}})-(\d{{2}})
\*     -(\d{{2}})-([\w\d]+)\.plot\.([\w\d]+)$": path goes into the pattern as
\* it is.
ingress_pattern(path) ==
    as_pattern(path)
        \o rep(Digit, 3) \o lit(<<"/", ".", "p", "l", "o", "t", "-", "k">>) \o rep(Digit, 2)
        \o lit(<<"-">>) \o rep(Digit, 4) \o lit(<<"-">>) \o rep(Digit, 2)
        \o lit(<<"-">>) \o rep(Digit, 2) \o lit(<<"-">>) \o rep(Digit, 2)
        \o lit(<<"-">>) \o rep(Digit, 2) \o lit(<<"-">>) \o plus(Word)
        \o lit(<<".", "p", "l", "o", "t", ".">>) \o plus(Word)

\* A flag that wants the plot id to be a token of a command line.
is_local_token(plot_id, local_jobs) ==
    \E i \in DOMAIN local_jobs :
        \E k \in DOMAIN local_jobs[i].cmdline : local_jobs[i].cmdline[k] = plot_id

\* any(plot_id in ' '.join(local_job.cmdline()) for local_job in local_jobs)
is_local(plot_id, local_jobs) ==
    \E i \in DOMAIN local_jobs :
        in_str(plot_id, join(<<" ">>, local_jobs[i].cmdline))

\* What the loop body makes of one line of the listing, given as
\* split = line.strip().split(), its tokens: the line as scan_lines reads
\* it (see FileLine).
as_line(path, local_jobs, split) ==
    IF Len(split) # 11 THEN Junk(Len(split), TRUE, FALSE, TRUE)
    ELSE IF ~is_int_literal(split[7]) THEN Junk(11, FALSE, FALSE, TRUE)
    ELSE LET job == split[11]
             m == re_search(ingress_pattern(path), job)
         IN  IF m = None THEN Junk(11, TRUE, FALSE, TRUE)
             ELSE LET n == Len(as_pattern(path))
                      g(i) == taken(job, m[1], n + i)
                      year == int(g(12))
                      month == int(g(14))
                      day == int(g(16))
                      hour == int(g(18))
                      minute == int(g(20))
                      ok == datetime_ok(year, month, day, hour, minute)
                  IN  [ntok |-> 11, space_int |-> TRUE, space |-> int(split[7]),
                       re_match |-> TRUE, date_ok |-> ok,
                       disk |-> int(g(1)), plot_k |-> int(g(10)),
                       plot_timestamp |->
                           IF ok THEN datetime_timestamp(year, month, day, hour, minute)
                           ELSE 0,
                       plot_id |-> g(22), job_id |-> g(29),
                       is_local |-> is_local(g(22), local_jobs)]

\* A loop over the listing that ends at the first line it cannot use.
RECURSIVE scan_lines_until_junk(_, _, _, _, _)
scan_lines_until_junk(stdout, i, prev_jobs, clock, jobs) ==
    IF i > Len(stdout) THEN Returned(jobs)
    ELSE LET line == stdout[i]
         IN  IF line.ntok # 11 \/ ~line.re_match THEN Returned(jobs)
             ELSE IF ~line.space_int \/ ~line.date_ok THEN Raised("ValueError")
             ELSE scan_lines_until_junk(stdout, i + 1, prev_jobs, clock,
                     Append(jobs,
                         IngressArchiveJob(line.job_id, line.plot_id,
                             line.plot_k, line.plot_timestamp, line.disk,
                             line.is_local, line.space,
                             carried_history(prev_jobs, line.job_id), clock)))

\* The loop over stdout.splitlines(), from line i on, with the jobs built
\* so far.
RECURSIVE scan_lines(_, _, _, _, _)
scan_lines(stdout, i, prev_jobs, clock, jobs) ==
    IF i > Len(stdout) THEN Returned(jobs)
    ELSE LET line == stdout[i]
         IN  IF line.ntok # 11
                 THEN scan_lines(stdout, i + 1, prev_jobs, clock, jobs)
             ELSE IF ~line.space_int
                 THEN Raised("ValueError")
             ELSE IF ~line.re_match
                 THEN scan_lines(stdout, i + 1, prev_jobs, clock, jobs)
             ELSE IF ~line.date_ok
                 THEN Raised("ValueError")
             ELSE scan_lines(stdout, i + 1, prev_jobs, clock,
                     Append(jobs,
                         IngressArchiveJob(line.job_id, line.plot_id,
                             line.plot_k, line.plot_timestamp, line.disk,
                             line.is_local, line.space,
                             carried_history(prev_jobs, line.job_id), clock)))

\* A reconcile that keeps the previous records the listing does not name.
get_archive_running_jobs_keeping(prev_jobs, ran, clock) ==
    IF ran.timed_out THEN Returned(<<>>)
    ELSE IF stderr_lines(ran.stderr) # <<>> THEN Raised("Exception")
    ELSE LET r == scan_lines(ran.stdout, 1, prev_jobs, clock, <<>>)
             seen == {r.jobs[i].job_id : i \in DOMAIN r.jobs}
         IN  IF r.raised # None THEN r
             ELSE Returned(r.jobs \o SelectSeq(prev_jobs,
                                       LAMBDA job : job.job_id \notin seen))

\* A reconcile that lets the expiry of the listing escape to its caller.
get_archive_running_jobs_expiring(prev_jobs, ran, clock) ==
    IF ran.timed_out THEN Raised("TimeoutExpired")
    ELSE IF stderr_lines(ran.stderr) # <<>> THEN Raised("Exception")
    ELSE scan_lines(ran.stdout, 1, prev_jobs, clock, <<>>)

\* A reconcile that hands its argument back when the listing expires.
get_archive_running_jobs_stale(prev_jobs, ran, clock) ==
    IF ran.timed_out THEN Returned(prev_jobs)
    ELSE IF stderr_lines(ran.stderr) # <<>> THEN Raised("Exception")
    ELSE scan_lines(ran.stdout, 1, prev_jobs, clock, <<>>)

\* A reconcile that reads the listing before it looks at the error stream.
get_archive_running_jobs_lenient(prev_jobs, ran, clock) ==
    IF ran.timed_out THEN Returned(<<>>)
    ELSE LET r == scan_lines(ran.stdout, 1, prev_jobs, clock, <<>>)
         IN  IF r.raised = None /\ r.jobs # <<>> THEN r
             ELSE IF stderr_lines(ran.stderr) # <<>> THEN Raised("Exception")
             ELSE r

\* The call on the previous registry, given what the listing subprocess did
\* (ran) and the clock when the records are built.
get_archive_running_jobs(prev_jobs, ran, clock) ==
    IF ran.timed_out THEN Returned(<<>>)
    ELSE IF stderr_lines(ran.stderr) # <<>> THEN Raised("Exception")
    ELSE scan_lines(ran.stdout, 1, prev_jobs, clock, <<>>)

\* ------------------------------------------------------- EgressArchiveJob

\* EgressArchiveJob.__init__; timestamp is the clock when the record is
\* built.
EgressArchiveJob(plot_id, plot_k, plot_timestamp, source_disk, dest_disk, start_timestamp, bw_limit, timestamp) ==
    [plot_id |-> plot_id, plot_k |-> plot_k, plot_timestamp |-> plot_timestamp,
     source_disk |-> source_disk, dest_disk |-> dest_disk,
     start_timestamp |-> start_timestamp, bw_limit |-> bw_limit,
     timestamp |-> timestamp]

\* r"^rsync://\S+@([\w\d]+):\d+/[\w\d]+/(\d+)/$"
rsync_pattern ==
    lit(<<"r", "s", "y", "n", "c", ":", "/", "/">>) \o plus(NonSpace) \o lit(<<"@">>) \o plus(Word)
        \o lit(<<":">>) \o plus(Digit) \o lit(<<"/">>) \o plus(Word)
        \o lit(<<"/">>) \o plus(Digit) \o lit(<<"/">>)

\* r"^([/\w\d]+)/plot-k(\d{2})-(\d{4})-(\d{2})-(\d{2})-(\d{2})-(\d{2})
\*    -([\w\d]+)\.plot$"
plot_path_pattern ==
    plus(Word \cup {"/"}) \o lit(<<"/", "p", "l", "o", "t", "-", "k">>) \o rep(Digit, 2)
        \o lit(<<"-">>) \o rep(Digit, 4) \o lit(<<"-">>) \o rep(Digit, 2)
        \o lit(<<"-">>) \o rep(Digit, 2) \o lit(<<"-">>) \o rep(Digit, 2)
        \o lit(<<"-">>) \o rep(Digit, 2) \o lit(<<"-">>) \o plus(Word)
        \o lit(<<".", "p", "l", "o", "t">>)

\* A destination that is stored as the command line gives it.
dest_disk_as_given(dest) == dest

\* dest_disk: f"/{groups[1]}@{groups[0]}" when the destination matches the
\* rsync pattern, the destination itself otherwise.
dest_disk_of(dest) ==
    LET m == re_search(rsync_pattern, dest)
    IN  IF m = None THEN dest
        ELSE <<"/">> \o taken(dest, m[1], 17) \o <<"@">> \o taken(dest, m[1], 11)

\* The loop over procs, from the i-th process on, with the jobs built so
\* far; a process is its create_time and its cmdline, a list of tokens.
RECURSIVE egress_scan(_, _, _, _)
egress_scan(procs, i, clock, jobs) ==
    IF i > Len(procs) THEN Returned(jobs)
    ELSE LET split == procs[i].cmdline
         IN  IF Len(split) # 9 THEN egress_scan(procs, i + 1, clock, jobs)
             ELSE LET plot_path == split[8]
                      dest_disk == dest_disk_of(split[9])
                      parts == split_on(split[2], "=")
                  IN  IF Len(parts) < 2 THEN Raised("IndexError")
                      ELSE IF ~is_int_literal(parts[2]) THEN Raised("ValueError")
                      ELSE LET m == re_search(plot_path_pattern, plot_path)
                           IN  IF m = None
                               THEN egress_scan(procs, i + 1, clock, jobs)
                               ELSE LET g(k) == taken(plot_path, m[1], k)
                                        year == int(g(11))
                                        month == int(g(13))
                                        day == int(g(15))
                                        hour == int(g(17))
                                        minute == int(g(19))
                                    IN  IF ~datetime_ok(year, month, day, hour, minute)
                                        THEN Raised("ValueError")
                                        ELSE egress_scan(procs, i + 1, clock,
                                                Append(jobs,
                                                    EgressArchiveJob(g(21), int(g(9)),
                                                        datetime_timestamp(year, month, day, hour, minute),
                                                        g(1), dest_disk, procs[i].create_time,
                                                        int(parts[2]), clock)))

\* EgressArchiveJob.get_archive_running_jobs on the processes that
\* archive.get_running_archive_jobs gives.
Egress_get_archive_running_jobs(procs, clock) == egress_scan(procs, 1, clock, <<>>)

\* A projection that counts the limit in bytes and clamps at both ends.
Egress_progress_clamped(job, t) ==
    LET elapsed == t - job.start_timestamp
        q == Rat(elapsed * job.bw_limit * 4, 5 * get_plotsize(job.plot_k))
    IN  IF RatLess(RatOne, q) THEN RatOne
        ELSE IF q.num < 0 THEN Rat(0, 1) ELSE q

\* EgressArchiveJob.progress read at clock t:
\* min(((elapsed * bw_limit * 1000) * 0.8) / get_plotsize(plot_k), 1),
\* where (x * 1000) * 0.8 is x * 800.
Egress_progress(job, t) ==
    LET elapsed == t - job.start_timestamp
        q == Rat(elapsed * job.bw_limit * 800, get_plotsize(job.plot_k))
    IN  IF RatLess(RatOne, q) THEN RatOne ELSE q

\* ------------------------------------------------- archive_monitor.curses_main

VARIABLES
    jobs,          \* the registry held by the loop
    last_refresh,  \* None, or Some(clock of the last full refresh)
    now,           \* the wall clock
    pc,            \* "start": curses_main entered; "getch": an iteration
                   \* has drawn the screen and waits for a key; "quit":
                   \* left by 'q'; "raised": left by an exception
    raised,        \* the exception that ended the loop, if any
    cycles,        \* full refreshes started so far
    probe,         \* what the listing subprocess of the last cycle gave
    prev_ids,      \* the job ids of the registry the last cycle was given
    track,         \* per job id, its run of consecutive cycles (history
                   \* variable, see Tracked)
    held_before,   \* the job ids of all registries the loop held before
                   \* the present one (history variable)
    call,          \* None, or the arguments of a call studied on its own
    ret,           \* None, or what that call returned or raised
    log,           \* the Log of the interactive loop
    plotting_active,   \* locals of the interactive curses_main
    archiving_active,
    aging_reason,
    pressed_key,
    cfg,           \* the configuration the interactive loop was given
    external,      \* whether the external plotter and archiver run
    declined,      \* the decline messages without "stagger" since the
                   \* last started plot, each with the length the log had
                   \* then (history variable)
    iteration      \* what the last iteration of the interactive loop did
                   \* (history variable)

vars == <<jobs, last_refresh, now, pc, raised, cycles, probe, prev_ids, track,
          held_before, call, ret, log, plotting_active, archiving_active,
          aging_reason, pressed_key, cfg, external, declined, iteration>>

\* Log.__init__
Log == [entries |-> <<>>, cur_pos |-> 0]

\* The variables of the interactive loop, and their values while it is not
\* running.
UiVars == <<log, plotting_active, archiving_active, aging_reason, pressed_key,
           cfg, external, declined, iteration>>

NoIteration == [full |-> FALSE, plot |-> None, spawned |-> FALSE]

UiIdle ==
    /\ log = Log
    /\ plotting_active = FALSE
    /\ archiving_active = FALSE
    /\ aging_reason = None
    /\ pressed_key = ""
    /\ cfg = None
    /\ external = [plotter |-> FALSE, archiver |-> FALSE]
    /\ declined = {}
    /\ iteration = NoIteration

\* The lines of a listing that name a marker file of the grammar.
Observed(stdout) ==
    SelectSeq(stdout, LAMBDA line :
        line.ntok = 11 /\ line.space_int /\ line.re_match /\ line.date_ok)

JobIdsOf(registry) == {registry[i].job_id : i \in DOMAIN registry}

Untracked == [n |-> 0, first |-> <<0, 0>>, last |-> 0, strict |-> TRUE]

NoTrack == [j \in JobIds |-> Untracked]

\* The run of a job id after a cycle whose listing was stdout, read at
\* clock: the number n of consecutive cycles that observed it, its first
\* observation of the run (of the first line that names it), the clock of
\* the last one, and whether the clocks of the run grew strictly.
Tracked(old, stdout, clock) ==
    [j \in JobIds |->
        LET seen == Observed(stdout)
            found == {i \in DOMAIN seen : seen[i].job_id = j}
        IN  IF found = {} THEN Untracked
            ELSE IF old[j].n = 0
                THEN [n |-> 1, first |-> <<clock, seen[Min(found)].space>>,
                      last |-> clock, strict |-> TRUE]
            ELSE [n |-> old[j].n + 1, first |-> old[j].first, last |-> clock,
                  strict |-> old[j].strict /\ clock > old[j].last]]

Init ==
    /\ jobs = <<>>
    /\ last_refresh = None
    /\ now = 0
    /\ pc = "start"
    /\ raised = None
    /\ cycles = 0
    /\ probe = NoProbe
    /\ prev_ids = <<>>
    /\ track = NoTrack
    /\ held_before = {}
    /\ call = None
    /\ ret = None
    /\ UiIdle

\* A refresh decision that waits until more than the polling time passed.
do_full_refresh_late(t) ==
    IF last_refresh = None THEN TRUE
    ELSE t - last_refresh[1] > polling_time_s

\* do_full_refresh at the top of an iteration that starts at clock t.
do_full_refresh(t) ==
    IF last_refresh = None THEN TRUE
    ELSE t - last_refresh[1] >= polling_time_s

\* The seconds the listing subprocess runs.
Duration(probe_in, dprobe) == IF probe_in.timed_out THEN timeout ELSE dprobe

\* curses_main is left: its locals are gone.
Left(how, exc) ==
    /\ pc' = how
    /\ raised' = exc
    /\ jobs' = <<>>
    /\ last_refresh' = None
    /\ prev_ids' = <<>>
    /\ track' = NoTrack
    /\ held_before' = {}

\* The body of an iteration that starts at clock t with a full refresh, up
\* to the key read.
Refresh(t, probe_in, dprobe) ==
    LET clock == t + Duration(probe_in, dprobe)
        r == get_archive_running_jobs(jobs, probe_in, clock)
    IN  /\ cycles < MaxCycles
        /\ cycles' = cycles + 1
        /\ probe' = probe_in
        /\ now' = clock
        /\ UNCHANGED <<call, ret, UiVars>>
        /\ IF r.raised # None
           THEN Left("raised", r.raised)
           ELSE /\ last_refresh' = Some(t)
                /\ jobs' = r.jobs
                /\ prev_ids' = [i \in DOMAIN jobs |-> jobs[i].job_id]
                /\ held_before' = held_before \cup JobIdsOf(jobs)
                /\ track' = IF probe_in.timed_out THEN NoTrack
                            ELSE Tracked(track, probe_in.stdout, clock)
                /\ pc' = "getch"
                /\ UNCHANGED raised

\* The first iteration: last_refresh is None, so it refreshes.
FirstIteration(probe_in, dprobe) ==
    /\ pc = "start"
    /\ Refresh(now, probe_in, dprobe)

\* getch() returns another key than 'q' after dt seconds and the next
\* iteration does a full refresh.
FullRefresh(dt, probe_in, dprobe) ==
    /\ pc = "getch"
    /\ do_full_refresh(now + dt)
    /\ Refresh(now + dt, probe_in, dprobe)

\* getch() returns another key than 'q' after dt seconds and the next
\* iteration draws the screen from what the loop holds.
NoRefresh(dt) ==
    /\ pc = "getch"
    /\ ~do_full_refresh(now + dt)
    /\ now' = now + dt
    /\ UNCHANGED <<jobs, last_refresh, pc, raised, cycles, probe, prev_ids, track>>
    /\ UNCHANGED <<held_before, call, ret, UiVars>>

\* getch() returns 'q', or is interrupted from the keyboard: break.
Quit ==
    /\ pc = "getch"
    /\ Left("quit", None)
    /\ UNCHANGED <<now, cycles, probe, call, ret, UiVars>>

Next ==
    \/ \E probe_in \in Probes, dprobe \in ProbeSteps :
            FirstIteration(probe_in, dprobe)
    \/ \E dt \in ClockSteps, probe_in \in Probes, dprobe \in ProbeSteps :
            FullRefresh(dt, probe_in, dprobe)
    \/ \E dt \in ClockSteps : NoRefresh(dt)
    \/ Quit

Spec == Init /\ [][Next]_vars

\* --------------------------------------------- EgressArchiveJob on its own

\* The variables of the loop, which stands still while a call is studied
\* on its own.
LoopVars == <<jobs, last_refresh, pc, raised, cycles, probe, prev_ids, track,
             held_before, UiVars>>

LoopIdle ==
    /\ jobs = <<>>
    /\ last_refresh = None
    /\ pc = "start"
    /\ raised = None
    /\ cycles = 0
    /\ probe = NoProbe
    /\ prev_ids = <<>>
    /\ track = NoTrack
    /\ held_before = {}
    /\ UiIdle

\* A transfer command line of nine tokens: the rate limit is token 1, the
\* plot path token 7 and the destination token 8.
Cmdline(bw, plot_path, dest) ==
    <<<<"r", "s", "y", "n", "c">>, bw, <<"-", "a">>, <<"-", "b">>, <<"-", "c">>, <<"-", "d">>, <<"-", "e">>, plot_path, dest>>

BwTokens == {<<"-", "-", "b", "w", "l", "i", "m", "i", "t", "=", "1">>, <<"-", "-", "b", "w", "l", "i", "m", "i", "t">>, <<"-", "-", "b", "w", "l", "i", "m", "i", "t", "=", "x">>}

\* A plot, a plot dated in month 13, and a file that is no plot.
PlotPaths ==
    {<<"/", "t", "/", "p", "l", "o", "t", "-", "k", "1", "0", "-", "2", "0", "2", "1", "-", "0", "6", "-", "0", "1", "-", "1", "2", "-", "3", "0", "-", "a", "b", "1", ".", "p", "l", "o", "t">>,
     <<"/", "t", "/", "p", "l", "o", "t", "-", "k", "1", "1", "-", "2", "0", "2", "1", "-", "1", "3", "-", "0", "1", "-", "1", "2", "-", "3", "0", "-", "c", "d", "2", ".", "p", "l", "o", "t">>,
     <<"/", "t", "/", "a", "b", "1", ".", "t", "m", "p">>}

\* A module of an rsync daemon on a host of one label, the same on a host
\* named with its domain, and a local directory.
Dests ==
    {<<"r", "s", "y", "n", "c", ":", "/", "/", "u", "@", "h", "1", ":", "1", "2", "0", "0", "0", "/", "p", "l", "o", "t", "s", "/", "0", "0", "7", "/">>,
     <<"r", "s", "y", "n", "c", ":", "/", "/", "u", "@", "h", "1", ".", "l", "a", "n", ":", "1", "2", "0", "0", "0", "/", "p", "l", "o", "t", "s", "/", "0", "0", "7", "/">>,
     <<"/", "m", "n", "t", "/", "d", "7">>}

\* When a transfer process was created; the process table is read at
\* clock 20.
CreateTimes == {15, 25}

EgressProcs ==
    [create_time : CreateTimes,
     cmdline : {Cmdline(bw, p, d) : bw \in BwTokens, p \in PlotPaths, d \in Dests}]
        \cup [create_time : {15},
              cmdline : {SubSeq(c, 1, 8) : c \in {Cmdline(<<"-", "-", "b", "w", "l", "i", "m", "i", "t", "=", "1">>, p, <<"/", "m", "n", "t", "/", "d", "7">>) : p \in PlotPaths}}]
        \cup [create_time : {15},
              cmdline : {<<<<"r", "s", "y", "n", "c">>>> \o Cmdline(<<"-", "-", "b", "w", "l", "i", "m", "i", "t", "=", "1">>, p, <<"/", "m", "n", "t", "/", "d", "7">>) : p \in PlotPaths}]

InitEgress ==
    /\ LoopIdle
    /\ now = 20
    /\ call \in {Some([procs |-> p]) : p \in SeqsUpTo(EgressProcs, MaxProcs)}
    /\ ret = None

\* EgressArchiveJob.get_archive_running_jobs is called.
EgressScan ==
    /\ ret = None
    /\ ret' = Some(Egress_get_archive_running_jobs(call[1].procs, now))
    /\ UNCHANGED <<call, now>>
    /\ UNCHANGED LoopVars

\* Five seconds pass before progress() is read again.
EgressWait ==
    /\ ret # None
    /\ now < 20 + 5 * MaxReads
    /\ now' = now + 5
    /\ UNCHANGED <<call, ret>>
    /\ UNCHANGED LoopVars

NextEgress == EgressScan \/ EgressWait

SpecEgress == InitEgress /\ [][NextEgress]_vars

\* ------------------------- IngressArchiveJob.get_archive_running_jobs on text

\* str(n) and str.zfill(w)
RECURSIVE decimal(_)
decimal(n) ==
    IF n < 10 THEN <<Digits[n + 1]>>
    ELSE decimal(n \div 10) \o <<Digits[(n % 10) + 1]>>

RECURSIVE zfill(_, _)
zfill(s, w) == IF Len(s) >= w THEN s ELSE zfill(<<"0">> \o s, w)

\* The name of a marker file of the grammar, built from its fields:
\* .plot-k<k>-<YYYY>-<MM>-<DD>-<HH>-<mm>-<plotId>.plot.<jobId>
marker_name(f) ==
    <<".", "p", "l", "o", "t", "-", "k">> \o zfill(decimal(f.plot_k), 2)
        \o <<"-">> \o zfill(decimal(f.date.year), 4)
        \o <<"-">> \o zfill(decimal(f.date.month), 2)
        \o <<"-">> \o zfill(decimal(f.date.day), 2)
        \o <<"-">> \o zfill(decimal(f.date.hour), 2)
        \o <<"-">> \o zfill(decimal(f.date.minute), 2)
        \o <<"-">> \o f.plot_id \o <<".", "p", "l", "o", "t", ".">> \o f.job_id

\* Its path under the root that find was given: <root><disk>/<name>
marker_path(root, f) == root \o zfill(decimal(f.disk), 3) \o <<"/">> \o marker_name(f)

\* Dates of two digits a field: two that exist (one on a leap day) and
\* five that do not (month 13, month 00, June 31, hour 24, minute 60).
Dates ==
    { [year |-> 2021, month |-> 6, day |-> 1, hour |-> 12, minute |-> 30],
      [year |-> 2020, month |-> 2, day |-> 29, hour |-> 23, minute |-> 59],
      [year |-> 2021, month |-> 13, day |-> 1, hour |-> 12, minute |-> 30],
      [year |-> 2021, month |-> 0, day |-> 1, hour |-> 12, minute |-> 30],
      [year |-> 2021, month |-> 6, day |-> 31, hour |-> 12, minute |-> 30],
      [year |-> 2021, month |-> 6, day |-> 1, hour |-> 24, minute |-> 30],
      [year |-> 2021, month |-> 6, day |-> 1, hour |-> 12, minute |-> 60] }

MarkerFields ==
    [disk : {7, 123}, plot_k : {5, 10}, date : Dates,
     plot_id : {<<"a", "b", "1">>, <<"c", "_", "d">>}, job_id : {<<"x", "9", "z">>}]

\* The marker file the other lines of a listing are about.
OtherMarker ==
    [disk |-> 8, plot_k |-> 10,
     date |-> [year |-> 2021, month |-> 6, day |-> 1, hour |-> 12, minute |-> 30],
     plot_id |-> <<"a", "b", "1">>, job_id |-> <<"q">>]

\* The configured destination: without its final "/", between blanks and
\* with a ".", and with a "+".
ConfigDests == {<<"/", "m", "/", "a">>, <<" ", "/", "m", ".", "a", "/", " ">>, <<"/", "m", "+", "/">>}

\* The tokens of a line that find -ls prints for a file of that size and
\* path.
LsLine(size, path) ==
    <<<<"1", "1">>, <<"4">>, <<"-", "r", "w", "-", "-", "-", "-", "-", "-", "-">>, <<"1">>, <<"u">>, <<"g">>, size,
      <<"J", "u", "n">>, <<"1">>, <<"1", "2", ":", "3", "0">>, path>>

\* Lines about files that are no marker files of the grammar: a file one
\* directory deeper, a file in a disk directory of one digit, a file
\* without a job id, a file with a blank in its name, and a line whose size
\* column is no number.
UnrelatedLines(root) ==
    { LsLine(<<"4", "0", "9", "6">>, root \o <<"0", "0", "8", "/", "o", "l", "d", "/">> \o marker_name(OtherMarker)),
      LsLine(<<"4", "0", "9", "6">>, root \o <<"8", "/">> \o marker_name(OtherMarker)),
      LsLine(<<"4", "0", "9", "6">>, root \o <<"0", "0", "8", "/", ".", "p", "l", "o", "t", "-", "k", "1", "0", "-", "2", "0", "2", "1", "-", "0", "6", "-", "0", "1", "-", "1", "2", "-", "3", "0", "-", "a", "b", "1", ".", "p", "l", "o", "t">>),
      LsLine(<<"4", "0", "9", "6">>, root \o <<"0", "0", "8", "/", ".", "p", "l", "o", "t", "-", "k", "1", "0">>) \o <<<<"c", "o", "p", "y">>>>,
      LsLine(<<"x">>, root \o <<"0", "0", "8", "/", ".", "p", "l", "o", "t", "-", "k", "1", "0">>) }

\* Listings: a first line about a marker file built from fields, or about
\* another file, and more lines after it.
TextListings(root) ==
    LET first == {[built |-> Some(f), line |-> LsLine(<<"1", "0", "0", "0", "0", "0", "0">>, marker_path(root, f))] :
                        f \in MarkerFields}
                    \cup {[built |-> None, line |-> l] : l \in UnrelatedLines(root)}
        more == {LsLine(<<"3", "0", "0", "0", "0", "0", "0">>, marker_path(root, OtherMarker)),
                 LsLine(<<"4", "0", "9", "6">>, root \o <<"0", "0", "8", "/", "o", "l", "d", "/">> \o marker_name(OtherMarker))}
    IN  {[built |-> l.built, stdout |-> <<l.line>> \o rest] :
            l \in first, rest \in SeqsUpTo(more, MaxTextLines - 1)}

\* The transfer processes of this host when the listing is read.
LocalJobs ==
    LET proc(p) == [create_time |-> 15,
                    cmdline |-> Cmdline(<<"-", "-", "b", "w", "l", "i", "m", "i", "t", "=", "1">>, p, <<"/", "m", "n", "t", "/", "d", "7">>)]
    IN  {<<>>} \cup {<<proc(p)>> : p \in PlotPaths}
            \cup {<<proc(<<"/", "t", "/", "p", "l", "o", "t", "-", "k", "1", "1", "-", "2", "0", "2", "1", "-", "1", "3", "-", "0", "1", "-", "1", "2", "-", "3", "0", "-", "c", "d", "2", ".", "p", "l", "o", "t">>),
                    proc(<<"/", "t", "/", "p", "l", "o", "t", "-", "k", "1", "0", "-", "2", "0", "2", "1", "-", "0", "6", "-", "0", "1", "-", "1", "2", "-", "3", "0", "-", "a", "b", "1", ".", "p", "l", "o", "t">>)>>}

InitListing ==
    /\ LoopIdle
    /\ now = 20
    /\ \E dest \in ConfigDests, local_jobs \in LocalJobs :
        \E listing \in TextListings(find_path(dest)) :
            call = Some([dest |-> dest, local_jobs |-> local_jobs,
                         stdout |-> listing.stdout, built |-> listing.built])
    /\ ret = None

\* The call with no previous registry, on a listing that completed with
\* an empty error stream.
ListingScan ==
    /\ ret = None
    /\ LET path == find_path(call[1].dest)
           stdout == [i \in DOMAIN call[1].stdout |->
                        as_line(path, call[1].local_jobs, call[1].stdout[i])]
       IN  ret' = Some(get_archive_running_jobs(<<>>,
                    [timed_out |-> FALSE, stdout |-> stdout, stderr |-> <<>>], now))
    /\ UNCHANGED <<call, now>>
    /\ UNCHANGED LoopVars

NextListing == ListingScan

SpecListing == InitListing /\ [][NextListing]_vars

\* ------------------------------------------- the registry as objects in a heap

\* The lists and records of the registry as Python holds them: objects
\* with an identity, reached by reference.  A heap has three stores, and a
\* reference is an index into one of them: regs holds the registry lists
\* (lists of references to records), objs the IngressArchiveJob records
\* (whose prev_transferred_bytes is a reference to a history list) and
\* hists the history lists (lists of samples).  An object that is
\* created is put at the end of its store.
EmptyHeap == [regs |-> <<>>, objs |-> <<>>, hists |-> <<>>]

\* A history lookup that puts the sample into the list of the previous
\* record and hands that list on.
Heap_carried_history_in_place(heap, prev_ref, job_id) ==
    LET prev_jobs == heap.regs[prev_ref]
        found == {i \in DOMAIN prev_jobs : heap.objs[prev_jobs[i]].job_id = job_id}
    IN  IF found = {}
        THEN [heap |-> [heap EXCEPT !.hists = Append(@, <<>>)],
              ref |-> Len(heap.hists) + 1]
        ELSE LET job == heap.objs[prev_jobs[Min(found)]]
                 at == job.prev_transferred_bytes
             IN  [heap |-> [heap EXCEPT !.hists[at] =
                                <<<<job.timestamp, job.transferred_bytes>>>> \o @],
                  ref |-> at]

\* next(([(job.timestamp, job.transferred_bytes)] + job.prev_transferred_bytes
\*       for job in prev_jobs if job.job_id == job_id), []): the list that
\* "+" creates, or the new empty list.
Heap_carried_history(heap, prev_ref, job_id) ==
    LET prev_jobs == heap.regs[prev_ref]
        found == {i \in DOMAIN prev_jobs : heap.objs[prev_jobs[i]].job_id = job_id}
        items == IF found = {} THEN <<>>
                 ELSE LET job == heap.objs[prev_jobs[Min(found)]]
                      IN  <<<<job.timestamp, job.transferred_bytes>>>>
                              \o heap.hists[job.prev_transferred_bytes]
    IN  [heap |-> [heap EXCEPT !.hists = Append(@, items)],
         ref |-> Len(heap.hists) + 1]

\* The loop over stdout.splitlines(), from line i on: jobs_ref is the list
\* the records are appended to.
RECURSIVE Heap_scan_lines(_, _, _, _, _, _)
Heap_scan_lines(heap, stdout, i, prev_ref, clock, jobs_ref) ==
    IF i > Len(stdout) THEN [heap |-> heap, raised |-> None, jobs |-> jobs_ref]
    ELSE LET line == stdout[i]
         IN  IF line.ntok # 11
                 THEN Heap_scan_lines(heap, stdout, i + 1, prev_ref, clock, jobs_ref)
             ELSE IF ~line.space_int
                 THEN [heap |-> heap, raised |-> Some("ValueError"), jobs |-> 0]
             ELSE IF ~line.re_match
                 THEN Heap_scan_lines(heap, stdout, i + 1, prev_ref, clock, jobs_ref)
             ELSE IF ~line.date_ok
                 THEN [heap |-> heap, raised |-> Some("ValueError"), jobs |-> 0]
             ELSE LET h == Heap_carried_history(heap, prev_ref, line.job_id)
                      job == IngressArchiveJob(line.job_id, line.plot_id,
                                 line.plot_k, line.plot_timestamp, line.disk,
                                 line.is_local, line.space, h.ref, clock)
                      made == [h.heap EXCEPT !.objs = Append(@, job)]
                      appended == [made EXCEPT !.regs[jobs_ref] =
                                        Append(@, Len(made.objs))]
                  IN  Heap_scan_lines(appended, stdout, i + 1, prev_ref, clock, jobs_ref)

\* The call on the registry list at prev_ref when the listing completed
\* with an empty error stream: jobs = [] is a new list.
Heap_get_archive_running_jobs(heap, prev_ref, stdout, clock) ==
    Heap_scan_lines([heap EXCEPT !.regs = Append(@, <<>>)], stdout, 1,
                    prev_ref, clock, Len(heap.regs) + 1)

\* The lines of the listings of the heap's loop.
HeapLines ==
    {FileLine(f, 1000000) : f \in Files} \cup {NoMatchLine, BadDateLine}

HeapListings ==
    {l \in SeqsUpTo(HeapLines, MaxHeapLines) :
        \A i, j \in DOMAIN l : i # j => l[i] # l[j]}

\* curses_main starts with jobs = [], a list.
InitHeap ==
    /\ LoopIdle
    /\ now = 0
    /\ call = None
    /\ ret = Some([heap |-> [EmptyHeap EXCEPT !.regs = <<<<>>>>],
                   raised |-> None, jobs |-> 1])

\* A cycle of the loop ten seconds after the last:
\* jobs = get_archive_running_jobs(prev_jobs = jobs).  call keeps the heap
\* as it was when the call was made, and the listing.
HeapCycle(stdout) ==
    /\ ret[1].raised = None
    /\ Len(ret[1].heap.regs) <= MaxHeapCycles
    /\ call' = Some([heap |-> ret[1].heap, prev_jobs |-> ret[1].jobs,
                      stdout |-> stdout])
    /\ ret' = Some(Heap_get_archive_running_jobs(ret[1].heap, ret[1].jobs,
                                                 stdout, now + 10))
    /\ now' = now + 10
    /\ UNCHANGED LoopVars

NextHeap == \E stdout \in HeapListings : HeapCycle(stdout)

SpecHeap == InitHeap /\ [][NextHeap]_vars

\* ------------------------------------------------ the interactive Log
\* interactive.py, class Log.  An entry is the text log() builds: the clock
\* as '%m-%d %H:%M:%S', a space, the message.

MaxLogEntries == 3

\* The month and the day of the month of day d (from 0) of a year that is
\* not a leap year, counting months from m.
RECURSIVE month_day(_, _)
month_day(d, m) ==
    IF d < days_in_month(1970, m) THEN <<m, d + 1>>
    ELSE month_day(d - days_in_month(1970, m), m + 1)

\* datetime.strftime('%m-%d %H:%M:%S') of the clock t, a number of seconds
\* within 1970 (UTC).
strftime(t) ==
    LET md == month_day(t \div 86400, 1)
        two(n) == zfill(decimal(n), 2)
    IN  two(md[1]) \o <<"-">> \o two(md[2]) \o <<" ">>
            \o two((t \div 3600) % 24) \o <<":">> \o two((t \div 60) % 60)
            \o <<":">> \o two(t % 60)

\* The log after Log.log(msg) at clock t.
Log_log(l, msg, t) ==
    LET entries == Append(l.entries, strftime(t) \o <<" ">> \o msg)
    IN  [entries |-> entries, cur_pos |-> Len(entries)]

\* A shift that does not clamp the position.
shift_slice_unclamped(l, offset) ==
    [l EXCEPT !.cur_pos = l.cur_pos + offset]

\* max(0, min(len(self.entries), self.cur_pos + offset))
shift_slice(l, offset) ==
    LET least == IF Len(l.entries) < l.cur_pos + offset
                 THEN Len(l.entries) ELSE l.cur_pos + offset
    IN  [l EXCEPT !.cur_pos = IF least < 0 THEN 0 ELSE least]

shift_slice_to_end(l) == [l EXCEPT !.cur_pos = Len(l.entries)]

get_cur_pos(l) == l.cur_pos

\* s[a : b] for a list s and a >= 0, b >= 0.
slice(s, a, b) ==
    LET stop == IF b < Len(s) THEN b ELSE Len(s)
    IN  IF a < stop THEN SubSeq(s, a + 1, stop) ELSE <<>>

\* self.entries[max(0, self.cur_pos - num_entries) : self.cur_pos]
cur_slice(l, num_entries) ==
    slice(l.entries,
          IF l.cur_pos - num_entries < 0 THEN 0 ELSE l.cur_pos - num_entries,
          l.cur_pos)

\* The messages, the offsets and the slice sizes of the calls.
LogMsgs == {<<"a">>, <<"b", "c">>}
Offsets == {-5, -1, 0, 1, 5}
SliceSizes == {-1, 0, 1, 2, 5}

\* The variables the Log does not touch.
NotLog == <<jobs, last_refresh, pc, raised, cycles, probe, prev_ids, track,
           held_before, plotting_active, archiving_active, aging_reason,
           pressed_key, cfg, external, declined, iteration>>

InitLog ==
    /\ LoopIdle
    /\ now = 0
    /\ call = None
    /\ ret = None

\* log.log(msg), dt seconds after the last call.
LogLog(msg, dt) ==
    /\ Len(log.entries) < MaxLogEntries
    /\ now' = now + dt
    /\ log' = Log_log(log, msg, now')
    /\ call' = Some([op |-> "log", msg |-> msg])
    /\ ret' = None
    /\ UNCHANGED NotLog

\* log.shift_slice(offset)
LogShiftSlice(offset) ==
    /\ log' = shift_slice(log, offset)
    /\ call' = Some([op |-> "shift_slice", offset |-> offset])
    /\ ret' = None
    /\ UNCHANGED <<now, NotLog>>

\* log.shift_slice_to_end()
LogShiftSliceToEnd ==
    /\ log' = shift_slice_to_end(log)
    /\ call' = Some([op |-> "shift_slice_to_end"])
    /\ ret' = None
    /\ UNCHANGED <<now, NotLog>>

\* log.cur_slice(num_entries)
LogCurSlice(num_entries) ==
    /\ ret' = Some(cur_slice(log, num_entries))
    /\ call' = Some([op |-> "cur_slice", num_entries |-> num_entries])
    /\ UNCHANGED <<log, now, NotLog>>

NextLog ==
    \/ \E msg \in LogMsgs, dt \in {0, 1} : LogLog(msg, dt)
    \/ \E offset \in Offsets : LogShiftSlice(offset)
    \/ LogShiftSliceToEnd
    \/ \E num_entries \in SliceSizes : LogCurSlice(num_entries)

SpecLog == InitLog /\ [][NextLog]_vars

\* ------------------------------------------------ the interactive loop
\* interactive.py, curses_main.  The scheduling call maybe_start_new_plot,
\* the archive calls and the external commands are the environment: what
\* they return is an input of the iteration.

MaxUiCycles == 3

\* str.find(sub): the least index (from 0) where sub begins, or -1.
find(text, sub) ==
    LET at == {i \in 1..(Len(text) - Len(sub) + 1) :
                    SubSeq(text, i, i + Len(sub) - 1) = sub}
    IN  IF at = {} THEN -1 ELSE Min(at) - 1

\* What a function gives that returns a truth value or raises.
Gives(value) == [raised |-> FALSE, value |-> value]
Raises == [raised |-> TRUE, value |-> FALSE]

\* should_use_external_plotting(cfg); a command field is TRUE when it is
\* set (not None).
should_use_external_plotting(c) ==
    LET has_start_plotter_cmd == c.start_plotter_cmd
        has_stop_plotter_cmd == c.stop_plotter_cmd
        has_is_plotter_active_cmd == c.is_plotter_active_cmd
    IN  IF has_start_plotter_cmd /\ has_stop_plotter_cmd /\ has_is_plotter_active_cmd
        THEN Gives(TRUE)
        ELSE IF has_start_plotter_cmd \/ has_stop_plotter_cmd \/ has_is_plotter_active_cmd
        THEN Raises
        ELSE Gives(FALSE)

\* is_external_plotting_active(cfg): the is-active command succeeds when
\* the external plotter runs.
is_external_plotting_active(c, ext) ==
    LET use == should_use_external_plotting(c)
    IN  IF use.raised THEN Raises
        ELSE IF ~use.value THEN Gives(FALSE)
        ELSE Gives(ext.plotter)

\* toggle_external_plotter(cfg): the stop command stops the external
\* plotter, the start command starts it.
toggle_external_plotter(c, ext) ==
    IF is_external_plotting_active(c, ext).value
    THEN [ext EXCEPT !.plotter = FALSE]
    ELSE [ext EXCEPT !.plotter = TRUE]

\* should_use_external_archiver(cfg)
should_use_external_archiver(c) ==
    LET has_start_archiver_cmd == c.start_archiver_cmd
        has_stop_archiver_cmd == c.stop_archiver_cmd
        has_is_archiver_active_cmd == c.is_archiver_active_cmd
    IN  IF has_start_archiver_cmd /\ has_stop_archiver_cmd /\ has_is_archiver_active_cmd
        THEN Gives(TRUE)
        ELSE IF has_start_archiver_cmd \/ has_stop_archiver_cmd \/ has_is_archiver_active_cmd
        THEN Raises
        ELSE Gives(FALSE)

\* is_external_archiving_active(cfg)
is_external_archiving_active(c, ext) ==
    LET use == should_use_external_archiver(c)
    IN  IF use.raised THEN Raises
        ELSE IF ~use.value THEN Gives(FALSE)
        ELSE Gives(ext.archiver)

\* toggle_external_archiver(cfg)
toggle_external_archiver(c, ext) ==
    IF is_external_archiving_active(c, ext).value
    THEN [ext EXCEPT !.archiver = FALSE]
    ELSE [ext EXCEPT !.archiver = TRUE]

\* The three commands of an external control: none set, all set, one set.
CmdSets ==
    {[start |-> FALSE, stop |-> FALSE, is_active |-> FALSE],
     [start |-> TRUE, stop |-> TRUE, is_active |-> TRUE],
     [start |-> TRUE, stop |-> FALSE, is_active |-> FALSE]}

\* The configurations: the commands of the two external controls, whether
\* cfg.archiving is set, and the two autostart options.
Cfgs ==
    {[start_plotter_cmd |-> p.start, stop_plotter_cmd |-> p.stop,
      is_plotter_active_cmd |-> p.is_active,
      start_archiver_cmd |-> a.start, stop_archiver_cmd |-> a.stop,
      is_archiver_active_cmd |-> a.is_active,
      archiving |-> archiving, autostart_plotting |-> TRUE,
      autostart_archiving |-> TRUE] :
        p \in CmdSets, a \in CmdSets, archiving \in BOOLEAN}

\* The autostart arguments of the command line.
AutostartArgs == {None, Some(FALSE)}

\* What maybe_start_new_plot may return.
PlotOutcomes ==
    {[started |-> TRUE, msg |-> <<"S", "t", "a", "r", "t", "i", "n", "g", " ", "p", "l", "o", "t", " ", "j", "o", "b">>],
     [started |-> FALSE, msg |-> <<"s", "t", "a", "g", "g", "e", "r", " ", "(", "5", "s", "/", "9", "s", ")">>],
     [started |-> FALSE, msg |-> <<"m", "a", "x", " ", "j", "o", "b", "s", " ", "(", "2", ")">>],
     [started |-> FALSE, msg |-> <<"n", "o", " ", "e", "l", "i", "g", "i", "b", "l", "e", " ", "t", "e", "m", "p", "d", "i", "r", "s">>]}

\* The log messages spawn_archive_process and get_archdir_freebytes may
\* return; the latter has nothing to report here.
SpawnMessages == {<<>>, <<<<"S", "t", "a", "r", "t", "i", "n", "g", " ", "a", "r", "c", "h", "i", "v", "e">>>>}
FreebytesMessages == {<<>>}

Keys == {"up", "dwn", "end", "p", "a", "q", "x"}

\* for log_message in log_messages: log.log(log_message)
RECURSIVE log_all(_, _, _)
log_all(l, log_messages, t) ==
    IF log_messages = <<>> THEN l
    ELSE log_all(Log_log(l, Head(log_messages), t), Tail(log_messages), t)

\* The variables the interactive loop does not touch.
NotUi == <<jobs, probe, prev_ids, track, held_before, call, ret>>

InitInteractive ==
    /\ LoopIdle
    /\ now = 0
    /\ call = None
    /\ ret = None

\* curses_main up to the loop, for a configuration c and the autostart
\* arguments of the command line.
Startup(c, cmd_autostart_plotting, cmd_autostart_archiving) ==
    /\ pc = "start"
    /\ cfg = None
    /\ cfg' = Some(c)
    /\ LET use == should_use_external_plotting(c)
           archiving_configured == c.archiving
       IN  IF use.raised
           THEN /\ pc' = "raised"
                /\ raised' = Some("Exception")
                /\ UNCHANGED <<plotting_active, archiving_active>>
           ELSE /\ pc' = "top"
                /\ raised' = None
                /\ plotting_active' =
                        IF use.value THEN FALSE
                        ELSE IF cmd_autostart_plotting # None
                        THEN cmd_autostart_plotting[1]
                        ELSE c.autostart_plotting
                /\ archiving_active' =
                        IF ~archiving_configured \/ use.value THEN FALSE
                        ELSE IF cmd_autostart_archiving # None
                        THEN cmd_autostart_archiving[1]
                        ELSE c.autostart_archiving
    /\ log' = Log
    /\ aging_reason' = None
    /\ last_refresh' = None
    /\ pressed_key' = ""
    /\ UNCHANGED <<now, cycles, external, declined, iteration, NotUi>>

\* do_full_refresh at the top of an iteration at clock t.
Interactive_do_full_refresh(t) ==
    IF last_refresh = None THEN TRUE
    ELSE t - last_refresh[1] >= polling_time_s

\* One iteration from the top of the loop to the key read.  plot_in is what
\* maybe_start_new_plot returns if it is called, spawn_messages and
\* free_messages the log messages of spawn_archive_process and of
\* get_archdir_freebytes.
Iteration(plot_in, spawn_messages, free_messages) ==
    LET c == cfg[1]
        do_full == Interactive_do_full_refresh(now)
        archiving_configured == c.archiving
        use_plotting == should_use_external_plotting(c)
        use_archiver == should_use_external_archiver(c)
        \* plotting_active or is_external_plotting_active(cfg)
        plotting_raises == ~plotting_active /\ use_plotting.raised
        plotting == plotting_active \/ is_external_plotting_active(c, external).value
        \* archiving_active or is_external_archiving_active(cfg)
        archiving_raises == ~archiving_active /\ use_archiver.raised
        archiving == archiving_active \/ is_external_archiving_active(c, external).value
        asked == do_full /\ plotting
        started == asked /\ plot_in.started
        log_plot ==
            IF started /\ ~use_plotting.value
            THEN Log_log(IF aging_reason # None
                         THEN Log_log(log, aging_reason[1], now) ELSE log,
                         plot_in.msg, now)
            ELSE log
        spawns == do_full /\ archiving_configured /\ archiving
        log_spawn == IF spawns THEN log_all(log_plot, spawn_messages, now) ELSE log_plot
        log_free == IF do_full /\ archiving_configured
                    THEN log_all(log_spawn, free_messages, now) ELSE log_spawn
        leaves == \/ plotting_raises
                  \/ archiving_configured /\ archiving_raises
                  \/ spawns /\ use_archiver.raised
    IN  /\ pc = "top"
        /\ do_full => cycles < MaxUiCycles
        /\ IF leaves
           THEN /\ pc' = "raised"
                /\ raised' = Some("Exception")
                /\ UNCHANGED <<last_refresh, cycles, log, aging_reason, declined, iteration>>
           ELSE /\ pc' = "getch"
                /\ last_refresh' = IF do_full THEN Some(now) ELSE last_refresh
                /\ cycles' = IF do_full THEN cycles + 1 ELSE cycles
                /\ log' = log_free
                /\ aging_reason' =
                        IF started /\ ~use_plotting.value THEN None
                        ELSE IF asked /\ ~plot_in.started /\ find(plot_in.msg, <<"s", "t", "a", "g", "g", "e", "r">>) < 0
                        THEN Some(plot_in.msg)
                        ELSE aging_reason
                /\ declined' =
                        IF started THEN {}
                        ELSE IF asked /\ find(plot_in.msg, <<"s", "t", "a", "g", "g", "e", "r">>) < 0
                        THEN declined \cup {[msg |-> plot_in.msg, at |-> Len(log.entries)]}
                        ELSE declined
                /\ iteration' = [full |-> do_full,
                                 plot |-> IF asked THEN Some(plot_in) ELSE None,
                                 spawned |-> spawns]
                /\ UNCHANGED raised
        /\ UNCHANGED <<now, plotting_active, archiving_active, pressed_key, cfg, external, NotUi>>

\* getch() returns key after dt seconds and the key is handled.
Key(key, dt) ==
    LET c == cfg[1]
        use_archiver == should_use_external_archiver(c)
    IN  /\ pc = "getch"
        /\ now' = now + dt
        /\ log' = IF key = "up" THEN shift_slice(log, -1)
                  ELSE IF key = "dwn" THEN shift_slice(log, 1)
                  ELSE IF key = "end" THEN shift_slice_to_end(log)
                  ELSE log
        /\ plotting_active' =
                IF key = "p" /\ ~should_use_external_plotting(c).value
                THEN ~plotting_active ELSE plotting_active
        /\ archiving_active' =
                IF key = "a" /\ ~use_archiver.raised /\ ~use_archiver.value
                THEN ~archiving_active ELSE archiving_active
        /\ external' =
                IF key = "p" /\ should_use_external_plotting(c).value
                THEN toggle_external_plotter(c, external)
                ELSE IF key = "a" /\ ~use_archiver.raised /\ use_archiver.value
                THEN toggle_external_archiver(c, external)
                ELSE external
        /\ pc' = IF key = "q" THEN "quit"
                 ELSE IF key = "a" /\ use_archiver.raised THEN "raised"
                 ELSE "top"
        /\ raised' = IF key = "a" /\ use_archiver.raised
                     THEN Some("Exception") ELSE raised
        /\ pressed_key' = IF key = "q" \/ (key = "a" /\ use_archiver.raised)
                          THEN pressed_key ELSE key
        /\ UNCHANGED <<last_refresh, cycles, aging_reason, cfg, declined, iteration, NotUi>>

NextInteractive ==
    \/ \E c \in Cfgs, cmd_autostart_plotting \in AutostartArgs, cmd_autostart_archiving \in AutostartArgs :
            Startup(c, cmd_autostart_plotting, cmd_autostart_archiving)
    \/ \E plot_in \in PlotOutcomes, spawn_messages \in SpawnMessages, free_messages \in FreebytesMessages :
            Iteration(plot_in, spawn_messages, free_messages)
    \/ \E key \in Keys, dt \in ClockSteps : Key(key, dt)

SpecInteractive == InitInteractive /\ [][NextInteractive]_vars

\* ------------------------------------------------------------------ claims

\* A step that is a full refresh whose call returned.
CycleReturned == cycles' = cycles + 1 /\ pc' = "getch"

Range(f) == {f[i] : i \in DOMAIN f}

HasText(text) == \E i \in DOMAIN text : text[i] = "text"

\* The least timestamp of a sample history.
MinTs(h) == Min({h[i][1] : i \in DOMAIN h})

\* The floor of a / b (b # 0).
Floor(a, b) == IF b > 0 THEN a \div b ELSE (-a) \div (-b)

\* C1: while the loop holds a registry, it has a record for a job id if and
\* only if a line of the listing of the last cycle named that job id in the
\* filename grammar (none did when the listing timed out); so a job id of
\* the previous registry that the listing does not name is gone.
AbsenceEviction ==
    pc = "getch" =>
        LET named == IF probe.timed_out THEN {}
                     ELSE JobIdsOf(Observed(probe.stdout))
        IN  /\ JobIdsOf(jobs) = named
            /\ \A j \in Range(prev_ids) : j \notin named => j \notin JobIdsOf(jobs)

\* A job id of the previous registry was not named by a listing that
\* completed and named another one.
WitnessAbsenceEviction ==
    /\ pc = "getch"
    /\ ~probe.timed_out
    /\ jobs # <<>>
    /\ \E j \in Range(prev_ids) : j \notin JobIdsOf(jobs)

\* C2: in a cycle that returns, every new record whose job id a previous
\* record has carries that record's (timestamp, transferred_bytes) followed
\* by its whole history, and every other new record has an empty history.
HistoryCarriedForward ==
    [][CycleReturned =>
        \A i \in DOMAIN jobs' :
            LET new == jobs'[i]
                found == {k \in DOMAIN jobs : jobs[k].job_id = new.job_id}
            IN  IF found = {} THEN new.prev_transferred_bytes = <<>>
                ELSE \E k \in found :
                        new.prev_transferred_bytes =
                            <<<<jobs[k].timestamp, jobs[k].transferred_bytes>>>>
                                \o jobs[k].prev_transferred_bytes]_vars

\* A third cycle holds a record with two samples carried and a record of a
\* job id the second cycle did not have.
WitnessHistoryCarriedForward ==
    /\ pc = "getch"
    /\ \E i \in DOMAIN jobs : Len(jobs[i].prev_transferred_bytes) = 2
    /\ \E i \in DOMAIN jobs :
            /\ jobs[i].prev_transferred_bytes = <<>>
            /\ jobs[i].job_id \notin Range(prev_ids)

\* C3: for a job id observed in n >= 2 consecutive cycles at strictly
\* growing clocks, the rate of its record is (its bytes - the bytes of the
\* first observation) / (its timestamp - the clock of the first
\* observation); from (0, 1000000) to (10, 3000000) it is 200000.
RateFromFirstObservation ==
    pc = "getch" =>
        \A i \in DOMAIN jobs :
            LET job == jobs[i]
                run == track[job.job_id]
                rate == estimated_transfer_rate(job)
            IN  (run.n >= 2 /\ run.strict) =>
                    /\ rate # None
                    /\ RatEq(rate[1],
                             Rat(job.transferred_bytes - run.first[2],
                                 job.timestamp - run.first[1]))
                    /\ (/\ run.first = <<0, 1000000>>
                        /\ job.timestamp = 10
                        /\ job.transferred_bytes = 3000000)
                            => RatEq(rate[1], Rat(200000, 1))

\* A job id in its third cycle whose rate since the first observation is
\* not its rate since the second.
WitnessRateFromFirstObservation ==
    /\ pc = "getch"
    /\ \E i \in DOMAIN jobs :
        LET job == jobs[i]
            run == track[job.job_id]
            newest == estimated_transfer_rate_newest(job)
        IN  /\ run.n = 3
            /\ run.strict
            /\ newest # None
            /\ ~RatEq(newest[1], estimated_transfer_rate(job)[1])

\* The scenario of the specification: 1000000 bytes at clock 0, 3000000 at
\* clock 10.
WitnessRateScenario ==
    /\ pc = "getch"
    /\ \E i \in DOMAIN jobs :
        /\ jobs[i].prev_transferred_bytes = <<<<0, 1000000>>>>
        /\ jobs[i].timestamp = 10
        /\ jobs[i].transferred_bytes = 3000000
        /\ estimated_transfer_rate(jobs[i]) = Some(Rat(2000000, 10))

\* The previous record a new record's history comes from: the first of its
\* job id.
Previous(registry, job_id) ==
    registry[Min({k \in DOMAIN registry : registry[k].job_id = job_id})]

\* C4 as stated: a job id observed in two consecutive cycles with the same
\* bytes at different clocks has rate 0 in the second.
StalledRateIsZero ==
    [][CycleReturned =>
        \A i \in DOMAIN jobs' :
            LET new == jobs'[i]
            IN  new.job_id \in JobIdsOf(jobs) =>
                    LET old == Previous(jobs, new.job_id)
                        rate == estimated_transfer_rate(new)
                    IN  (/\ old.transferred_bytes = new.transferred_bytes
                         /\ old.timestamp # new.timestamp)
                            => rate # None /\ rate[1].num = 0]_vars

\* C4 as amended: it has rate 0 in the second cycle when the first of the
\* two cycles is the one that discovered the job id.
StalledRateIsZeroAfterDiscovery ==
    [][CycleReturned =>
        \A i \in DOMAIN jobs' :
            LET new == jobs'[i]
            IN  new.job_id \in JobIdsOf(jobs) =>
                    LET old == Previous(jobs, new.job_id)
                        rate == estimated_transfer_rate(new)
                    IN  (/\ old.transferred_bytes = new.transferred_bytes
                         /\ old.timestamp # new.timestamp
                         /\ old.prev_transferred_bytes = <<>>)
                            => rate # None /\ rate[1].num = 0]_vars

\* A record in the second cycle of its job id, with the bytes of the first
\* at a later clock, and rate 0.
WitnessStalledRateIsZero ==
    /\ pc = "getch"
    /\ \E i \in DOMAIN jobs :
        LET job == jobs[i]
            h == job.prev_transferred_bytes
        IN  /\ Len(h) = 1
            /\ h[1][2] = job.transferred_bytes
            /\ h[1][1] # job.timestamp
            /\ estimated_transfer_rate(job) = Some(Rat(0, job.timestamp - h[1][1]))

\* C5: a listing that times out raises nothing and gives the empty list,
\* whatever registry the call is given.
TimeoutGivesEmpty ==
    /\ get_archive_running_jobs(jobs,
            [timed_out |-> TRUE, stdout |-> <<>>, stderr |-> <<>>],
            now + timeout) = Returned(<<>>)
    /\ probe.timed_out =>
            /\ pc # "raised"
            /\ raised = None
            /\ pc = "getch" => jobs = <<>>

\* The listing timed out in a cycle that was given a registry with records.
WitnessTimeoutGivesEmpty ==
    /\ probe.timed_out
    /\ pc = "getch"
    /\ prev_ids # <<>>

\* C6 as stated: the loop holds after a timed-out cycle the registry it
\* held before it.
TimeoutRetainsSnapshot ==
    [][(cycles' = cycles + 1 /\ probe'.timed_out) => jobs' = jobs]_vars

\* C6 as amended: the loop holds the empty registry after a timed-out
\* cycle; the records it held, and their histories, are dropped.
TimeoutDropsSnapshot ==
    [][(cycles' = cycles + 1 /\ probe'.timed_out) =>
            /\ pc' = "getch"
            /\ jobs' = <<>>
            /\ (jobs # <<>> => jobs' # jobs)]_vars

\* The third cycle timed out after a cycle that held two records.
WitnessTimeoutDropsSnapshot ==
    /\ probe.timed_out
    /\ pc = "getch"
    /\ cycles = 3
    /\ Len(prev_ids) = 2
    /\ jobs = <<>>

RateUndefinedExactly ==
    \A i \in DOMAIN jobs :
        LET job == jobs[i]
            h == job.prev_transferred_bytes
            rate == estimated_transfer_rate(job)
        IN  /\ rate = None <=> (h = <<>> \/ job.timestamp - MinTs(h) = 0)
            /\ rate # None => rate[1].den # 0
            /\ track[job.job_id].n = 1 => rate = None

\* A record with a sample taken at its own timestamp.
WitnessRateUndefinedExactly ==
    \E i \in DOMAIN jobs :
        LET job == jobs[i]
            h == job.prev_transferred_bytes
        IN  /\ h # <<>>
            /\ job.timestamp = MinTs(h)
            /\ estimated_transfer_rate(job) = None

\* C9: the ETA of a record is None exactly when its rate is None or zero;
\* otherwise it is max(0, floor((expected size - bytes) / rate)), never
\* negative.
EtaClamped ==
    \A i \in DOMAIN jobs :
        LET job == jobs[i]
            rate == estimated_transfer_rate(job)
            eta == estimated_remaining_time(job)
            left == get_plotsize(job.plot_k) - job.transferred_bytes
        IN  /\ eta = None <=> (rate = None \/ RatEq(rate[1], Rat(0, 1)))
            /\ eta # None =>
                LET q == Floor(left * rate[1].den, rate[1].num)
                IN  /\ eta[1] = IF q > 0 THEN q ELSE 0
                    /\ eta[1] >= 0

\* A registry with a record past its expected size, a record whose bytes
\* shrank, and a record with seconds left.
WitnessEtaClamped ==
    /\ \E i \in DOMAIN jobs :
            /\ jobs[i].transferred_bytes > get_plotsize(jobs[i].plot_k)
            /\ estimated_transfer_rate(jobs[i]) # None
            /\ estimated_transfer_rate(jobs[i])[1].num > 0
            /\ estimated_remaining_time(jobs[i]) = Some(0)
    /\ \E i \in DOMAIN jobs :
            /\ estimated_remaining_time(jobs[i]) # None
            /\ estimated_remaining_time(jobs[i])[1] > 0

\* A record whose bytes shrank: its rate is negative and its ETA is 0.
WitnessEtaNegativeRate ==
    \E i \in DOMAIN jobs :
        /\ jobs[i].transferred_bytes < get_plotsize(jobs[i].plot_k)
        /\ estimated_transfer_rate(jobs[i]) # None
        /\ estimated_transfer_rate(jobs[i])[1].num < 0
        /\ estimated_remaining_time(jobs[i]) = Some(0)

\* C10: the progress of every record of the registry is in [0, 1].
ProgressInUnitInterval ==
    \A i \in DOMAIN jobs :
        LET p == progress(jobs[i])
        IN  /\ p.den > 0
            /\ 0 <= p.num
            /\ p.num <= p.den

\* A record with more bytes than the expected size of its class.
WitnessProgressInUnitInterval ==
    \E i \in DOMAIN jobs :
        /\ jobs[i].transferred_bytes > get_plotsize(jobs[i].plot_k)
        /\ progress(jobs[i]) = RatOne

\* The egress records of the call studied, if it returned.
EgressJobs == IF ret = None THEN <<>> ELSE ret[1].jobs

Skipped(line) == line.ntok # 11 \/ (line.space_int /\ ~line.re_match)

\* The records of a registry are those of the matching lines of a listing,
\* line by line.
RecordsOf(registry, stdout) ==
    LET seen == Observed(stdout)
    IN  /\ Len(registry) = Len(seen)
        /\ \A i \in DOMAIN registry :
                /\ registry[i].job_id = seen[i].job_id
                /\ registry[i].plot_id = seen[i].plot_id
                /\ registry[i].disk = seen[i].disk
                /\ registry[i].transferred_bytes = seen[i].space

MalformedFieldsSkipped ==
    (cycles > 0 /\ ~probe.timed_out /\ ~HasText(probe.stderr)) =>
        /\ pc # "raised"
        /\ pc = "getch" => RecordsOf(jobs, probe.stdout)

\* A command line of nine tokens whose token 1 holds "=<int>" and whose
\* token 7 is a plot path of the grammar with a date that exists.
Conforming(cmdline) ==
    /\ Len(cmdline) = 9
    /\ cmdline[2] = <<"-", "-", "b", "w", "l", "i", "m", "i", "t", "=", "1">>
    /\ cmdline[8] = <<"/", "t", "/", "p", "l", "o", "t", "-", "k", "1", "0", "-", "2", "0", "2", "1", "-", "0", "6", "-", "0", "1", "-", "1", "2", "-", "3", "0", "-", "a", "b", "1", ".", "p", "l", "o", "t">>

\* C14: the egress call raises nothing, whatever the command lines are,
\* and returns one record for each command line of nine tokens that
\* conforms, in the order of the processes; every other command line is
\* dropped.
EgressNonConformingDropped ==
    ret # None =>
        LET procs == call[1].procs
            kept == SelectSeq(procs, LAMBDA proc : Conforming(proc.cmdline))
        IN  /\ ret[1].raised = None
            /\ Len(ret[1].jobs) = Len(kept)
            /\ \A i \in DOMAIN kept :
                    /\ ret[1].jobs[i].plot_id = <<"a", "b", "1">>
                    /\ ret[1].jobs[i].start_timestamp = kept[i].create_time

\* The records of the listing call studied, if it returned.
ListingJobs == IF ret = None THEN <<>> ELSE ret[1].jobs

\* An occurrence of the text in one token of a command line.
OccursIn(text, cmdline) ==
    \E k \in DOMAIN cmdline :
        \E a \in 0..Len(cmdline[k]) :
            /\ a + Len(text) <= Len(cmdline[k])
            /\ \A c \in DOMAIN text : cmdline[k][a + c] = text[c]

\* C15: the is_local flag of every ingress record is true exactly when its
\* plot id occurs in the command line of a transfer process of the same
\* cycle; it is false when there is no such process.
LocalityFlag ==
    \A i \in DOMAIN ListingJobs :
        LET job == ListingJobs[i]
            local_jobs == call[1].local_jobs
        IN  /\ job.is_local \in BOOLEAN
            /\ job.is_local <=>
                    \E p \in DOMAIN local_jobs : OccursIn(job.plot_id, local_jobs[p].cmdline)
            /\ local_jobs = <<>> => ~job.is_local

\* A record flagged local because the second of two transfer processes
\* has its plot id inside the plot path, and, in the same registry or
\* another, a record that is not flagged.
WitnessLocalityFlag ==
    /\ Len(call[1].local_jobs) = 2
    /\ \E i \in DOMAIN ListingJobs :
            /\ ListingJobs[i].is_local
            /\ ~OccursIn(ListingJobs[i].plot_id, call[1].local_jobs[1].cmdline)
            /\ \A k \in 1..9 : call[1].local_jobs[2].cmdline[k] # ListingJobs[i].plot_id
    /\ Len(ListingJobs) = 2

\* A record that is not flagged while transfer processes run.
WitnessLocalityFlagFalse ==
    /\ call[1].local_jobs # <<>>
    /\ \E i \in DOMAIN ListingJobs : ~ListingJobs[i].is_local

\* C16: a path built from fields in the grammar gives a record with the
\* disk index, size class, timestamp, plot id and job id it was built
\* from.
ConformingPathRoundTrips ==
    (ret # None /\ call[1].built # None) =>
        LET f == call[1].built[1]
        IN  /\ ret[1].raised = None
            /\ ret[1].jobs # <<>>
            /\ ret[1].jobs[1].disk = f.disk
            /\ ret[1].jobs[1].plot_k = f.plot_k
            /\ ret[1].jobs[1].plot_timestamp =
                    (days_since_epoch(f.date.year, f.date.month, f.date.day) * 24
                        + f.date.hour) * 3600 + f.date.minute * 60
            /\ ret[1].jobs[1].plot_id = f.plot_id
            /\ ret[1].jobs[1].job_id = f.job_id

\* C17: the root is matched as a literal: when the call returns, it has
\* returned one record for each line whose path is the characters of the
\* root followed by a name of the grammar, and no other record.
RootPrefixLiteral ==
    (ret # None /\ ret[1].raised = None) =>
        LET path == find_path(call[1].dest)
            lines == call[1].stdout
            literal == {i \in DOMAIN lines :
                            /\ Len(lines[i]) = 11
                            /\ re_search(lit(path) \o ingress_pattern(<<>>),
                                         lines[i][11]) # None}
        IN  /\ Len(ret[1].jobs) = Cardinality(literal)
            /\ \A i \in DOMAIN lines :
                    (Len(lines[i]) = 11 /\ SubSeq(lines[i][11], 1, Len(path)) # path)
                        => i \notin literal

\* The destination tokens of the command lines that gave the records of
\* the egress call, in the order of the records.
EgressDests ==
    IF ret = None \/ ret[1].raised # None THEN <<>>
    ELSE LET kept == SelectSeq(call[1].procs, LAMBDA proc : Conforming(proc.cmdline))
         IN  [i \in DOMAIN kept |-> kept[i].cmdline[9]]

\* C18 as stated: a destination rsync://user@host:port/module/<disk>/ is
\* stored as "/<disk>@<host>", for the host h1 and for the host h1.lan, and
\* a local path is stored as it is.
DestinationTagged ==
    /\ Len(EgressJobs) = Len(EgressDests)
    /\ \A i \in DOMAIN EgressDests :
        EgressJobs[i].dest_disk =
            IF EgressDests[i] = <<"r", "s", "y", "n", "c", ":", "/", "/", "u", "@", "h", "1", ":", "1", "2", "0", "0", "0", "/", "p", "l", "o", "t", "s", "/", "0", "0", "7", "/">> THEN <<"/", "0", "0", "7", "@", "h", "1">>
            ELSE IF EgressDests[i] = <<"r", "s", "y", "n", "c", ":", "/", "/", "u", "@", "h", "1", ".", "l", "a", "n", ":", "1", "2", "0", "0", "0", "/", "p", "l", "o", "t", "s", "/", "0", "0", "7", "/">>
                THEN <<"/", "0", "0", "7", "@", "h", "1", ".", "l", "a", "n">>
            ELSE EgressDests[i]

\* C18 as amended: the destination is stored as "/<disk>@<host>" when the
\* host is made of letters, digits and "_" only; a local path, and an
\* rsync destination whose host holds a ".", is stored as it is.
DestinationTaggedForWordHost ==
    /\ Len(EgressJobs) = Len(EgressDests)
    /\ \A i \in DOMAIN EgressDests :
        EgressJobs[i].dest_disk =
            IF EgressDests[i] = <<"r", "s", "y", "n", "c", ":", "/", "/", "u", "@", "h", "1", ":", "1", "2", "0", "0", "0", "/", "p", "l", "o", "t", "s", "/", "0", "0", "7", "/">> THEN <<"/", "0", "0", "7", "@", "h", "1">>
            ELSE EgressDests[i]

\* Two records: one tagged "/007@h1" and one that keeps the rsync
\* destination on h1.lan.
WitnessDestinationTagged ==
    /\ Len(EgressDests) = 2
    /\ EgressJobs[1].dest_disk = <<"/", "0", "0", "7", "@", "h", "1">>
    /\ EgressJobs[2].dest_disk = <<"r", "s", "y", "n", "c", ":", "/", "/", "u", "@", "h", "1", ".", "l", "a", "n", ":", "1", "2", "0", "0", "0", "/", "p", "l", "o", "t", "s", "/", "0", "0", "7", "/">>

\* A record that keeps a local path.
WitnessDestinationLocal ==
    /\ Len(EgressDests) = 1
    /\ EgressJobs[1].dest_disk = <<"/", "m", "n", "t", "/", "d", "7">>

\* C19 as stated: the sample history of every record of the registry is
\* ascending by timestamp.
HistoryAscending ==
    \A i \in DOMAIN jobs :
        LET h == jobs[i].prev_transferred_bytes
        IN  \A k \in 1..(Len(h) - 1) : h[k][1] <= h[k + 1][1]

\* C19 as amended: the sample history of every record of the registry is
\* descending by timestamp, the newest sample first, and no sample is
\* newer than the record.
HistoryDescending ==
    \A i \in DOMAIN jobs :
        LET h == jobs[i].prev_transferred_bytes
        IN  /\ \A k \in 1..(Len(h) - 1) : h[k][1] >= h[k + 1][1]
            /\ h # <<>> => jobs[i].timestamp >= h[1][1]

\* A record observed in three cycles at growing clocks: its first sample
\* is newer than its second.
WitnessHistoryDescending ==
    \E i \in DOMAIN jobs :
        LET h == jobs[i].prev_transferred_bytes
        IN  /\ Len(h) = 2
            /\ h[1][1] > h[2][1]
            /\ jobs[i].timestamp > h[1][1]

\* C20: a call leaves every object the heap held when it was made as it
\* was, the previous registry list, its records and their history lists
\* among them, whether it returns or raises; the list it returns is a new
\* list of new records, each with a history list of its own that no
\* earlier record and no other new record refers to.
ReconcileLeavesPrevious ==
    call # None =>
        LET before == call[1].heap
            after == ret[1].heap
        IN  /\ SubSeq(after.regs, 1, Len(before.regs)) = before.regs
            /\ SubSeq(after.objs, 1, Len(before.objs)) = before.objs
            /\ SubSeq(after.hists, 1, Len(before.hists)) = before.hists
            /\ ret[1].raised = None =>
                LET new == after.regs[ret[1].jobs]
                IN  /\ ret[1].jobs > Len(before.regs)
                    /\ \A i \in DOMAIN new :
                        /\ new[i] > Len(before.objs)
                        /\ after.objs[new[i]].prev_transferred_bytes > Len(before.hists)
                        /\ \A j \in DOMAIN new :
                            i # j => after.objs[new[i]].prev_transferred_bytes
                                        # after.objs[new[j]].prev_transferred_bytes

\* A call that was given a registry with a record that has a history, and
\* returned two records of that job id, each with a longer history.
WitnessReconcileLeavesPrevious ==
    /\ call # None
    /\ ret[1].raised = None
    /\ LET before == call[1].heap
           after == ret[1].heap
           old == before.regs[call[1].prev_jobs]
           new == after.regs[ret[1].jobs]
       IN  /\ Len(new) = 2
           /\ \E k \in DOMAIN old :
                /\ before.hists[before.objs[old[k]].prev_transferred_bytes] # <<>>
                /\ \A i \in DOMAIN new :
                    /\ after.objs[new[i]].job_id = before.objs[old[k]].job_id
                    /\ Len(after.hists[after.objs[new[i]].prev_transferred_bytes])
                        = Len(before.hists[before.objs[old[k]].prev_transferred_bytes]) + 1

\* A call that raised after it had built a record from the previous one.
WitnessReconcileRaised ==
    /\ call # None
    /\ ret[1].raised # None
    /\ Len(ret[1].heap.objs) > Len(call[1].heap.objs)
    /\ ret[1].heap.hists[Len(ret[1].heap.hists)] # <<>>

\* ------------------------------------------------------------------- C21
\* C21: a job id that the registry of one cycle does not hold (its listing
\* did not name it, or the listing timed out) and that the next cycle
\* observes starts that cycle with an empty sample history, whatever the
\* loop recorded for it before; its rate and its remaining time are then
\* undefined.
ReappearanceStartsFresh ==
    [][CycleReturned =>
        \A i \in DOMAIN jobs' :
            jobs'[i].job_id \notin JobIdsOf(jobs) =>
                /\ jobs'[i].prev_transferred_bytes = <<>>
                /\ estimated_transfer_rate(jobs'[i]) = None
                /\ estimated_remaining_time(jobs'[i]) = None]_vars

\* A job id that an earlier registry held, that the previous one did not,
\* and that is observed again with an empty history.
WitnessReappearanceStartsFresh ==
    /\ pc = "getch"
    /\ \E i \in DOMAIN jobs :
        /\ jobs[i].job_id \in held_before
        /\ jobs[i].job_id \notin Range(prev_ids)
        /\ jobs[i].prev_transferred_bytes = <<>>
        /\ estimated_transfer_rate(jobs[i]) = None

\* The same after a cycle that gave an empty registry (its listing named
\* nothing, or timed out).
WitnessReappearanceAfterTimeout ==
    /\ pc = "getch"
    /\ cycles = 3
    /\ prev_ids = <<>>
    /\ \E i \in DOMAIN jobs :
        /\ jobs[i].job_id \in held_before
        /\ jobs[i].prev_transferred_bytes = <<>>

WitnessRefreshAtPollingTime ==
    /\ pc = "getch"
    /\ cycles = 2
    /\ last_refresh = Some(polling_time_s)

\* ------------------------------------------------------------------- C23
\* C23: the registry a cycle returns holds one record per matching line of
\* its listing, in the order of the listing; two matching lines of one job
\* id give two records of that id, and each of them carries the history
\* taken from the first record of that id in the previous registry.
OneRecordPerMatchingLine ==
    [][CycleReturned =>
        /\ RecordsOf(jobs', IF probe'.timed_out THEN <<>> ELSE probe'.stdout)
        /\ \A i \in DOMAIN jobs' :
            LET new == jobs'[i]
            IN  new.prev_transferred_bytes =
                    IF new.job_id \notin JobIdsOf(jobs) THEN <<>>
                    ELSE LET old == Previous(jobs, new.job_id)
                         IN  <<<<old.timestamp, old.transferred_bytes>>>>
                                 \o old.prev_transferred_bytes
        /\ \A i, k \in DOMAIN jobs' :
            jobs'[i].job_id = jobs'[k].job_id =>
                jobs'[i].prev_transferred_bytes = jobs'[k].prev_transferred_bytes]_vars

\* Two records of one job id under two disk indexes, after a registry that
\* had two records of that id too: both carry the same history, whose
\* bytes differ from the bytes of either record.
WitnessOneRecordPerMatchingLine ==
    /\ pc = "getch"
    /\ Len(jobs) = 2
    /\ Len(prev_ids) = 2
    /\ prev_ids[1] = prev_ids[2]
    /\ jobs[1].job_id = jobs[2].job_id
    /\ jobs[1].job_id = prev_ids[1]
    /\ jobs[1].disk # jobs[2].disk
    /\ jobs[1].transferred_bytes # jobs[2].transferred_bytes
    /\ jobs[1].prev_transferred_bytes # <<>>
    /\ jobs[1].prev_transferred_bytes = jobs[2].prev_transferred_bytes

\* ------------------------------------------------------------------- C24
\* What cur_slice is to return for a size n >= 0: the entries, at most n of
\* them and all there are up to n, that end just before cur_pos.
EndsBeforeCurPos(r, l, n) ==
    /\ Len(r) = IF n < l.cur_pos THEN n ELSE l.cur_pos
    /\ \A i \in DOMAIN r : r[i] = l.entries[l.cur_pos - Len(r) + i]

\* C24: after any sequence of log, shift_slice (of any offset) and
\* shift_slice_to_end calls, 0 <= cur_pos <= len(entries); log(msg) appends
\* one entry, which ends with msg, and sets cur_pos to len(entries);
\* shift_slice and shift_slice_to_end leave entries as they are; and
\* cur_slice(n), for a size n >= 0, returns the at most n consecutive
\* entries that end just before cur_pos, and changes nothing.
LogCursor ==
    [][/\ 0 <= log'.cur_pos
       /\ log'.cur_pos <= Len(log'.entries)
       /\ call'[1].op = "log" =>
            /\ log'.entries =
                    Append(log.entries, strftime(now') \o <<" ">> \o call'[1].msg)
            /\ log'.cur_pos = Len(log.entries) + 1
       /\ call'[1].op \in {"shift_slice", "shift_slice_to_end"} =>
            log'.entries = log.entries
       /\ call'[1].op = "cur_slice" =>
            /\ log' = log
            /\ call'[1].num_entries >= 0 =>
                    EndsBeforeCurPos(ret'[1], log, call'[1].num_entries)
       /\ \A n \in SliceSizes :
            n >= 0 => EndsBeforeCurPos(cur_slice(log', n), log', n)]_vars

\* A shift far to the left of a log of three entries stopped at 0.
WitnessLogCursor ==
    /\ call # None
    /\ call[1].op = "shift_slice"
    /\ call[1].offset = -5
    /\ Len(log.entries) = 3
    /\ log.cur_pos = 0

\* cur_slice(2) gave the first two of three entries, the position being 2.
WitnessLogCurSlice ==
    /\ call # None
    /\ call[1].op = "cur_slice"
    /\ call[1].num_entries = 2
    /\ Len(log.entries) = 3
    /\ log.cur_pos = 2
    /\ ret = Some(SubSeq(log.entries, 1, 2))

\* ------------------------------------------------------------------- C25
\* A step that is an iteration of the interactive loop up to the key read.
IterationDone == pc = "top" /\ pc' = "getch"

\* Whether a log entry is the record of the message msg.
EntryOf(entry, msg) ==
    /\ Len(entry) > Len(msg)
    /\ SubSeq(entry, Len(entry) - Len(msg), Len(entry)) = <<" ">> \o msg

\* The positions in the log after a step of the entries that the step
\* wrote for the message msg.
WrittenFor(msg) ==
    {i \in (Len(log.entries) + 1)..Len(log'.entries) : EntryOf(log'.entries[i], msg)}

\* C25: each time maybe_start_new_plot declines with a message that does
\* not contain "stagger", that message is in the log, after the entries
\* that were there when it declined and before the entry of the next
\* started plot, when that entry is written; and no entry has a decline
\* message that contains "stagger".
DeclineReasonsLogged ==
    [][IterationDone =>
        /\ (iteration'.plot # None /\ iteration'.plot[1].started
                /\ WrittenFor(iteration'.plot[1].msg) # {}) =>
            \A d \in declined :
                \E i \in (d.at + 1)..(Min(WrittenFor(iteration'.plot[1].msg)) - 1) :
                    EntryOf(log'.entries[i], d.msg)
        /\ \A i \in DOMAIN log'.entries :
            \A o \in PlotOutcomes :
                (~o.started /\ find(o.msg, <<"s", "t", "a", "g", "g", "e", "r">>) >= 0) =>
                    ~EntryOf(log'.entries[i], o.msg)]_vars

\* ------------------------------------------------------------------- C26
\* Whether the three commands of the external archiver are set.
ExternalArchiver(c) ==
    c.start_archiver_cmd /\ c.stop_archiver_cmd /\ c.is_archiver_active_cmd

\* C26: when the three commands of the external archiver are set,
\* archiving_active is False when the loop is entered and stays False
\* whatever keys are pressed, 'a' toggling the external archiver; when none
\* is set, 'a' flips archiving_active and no other key changes it; and
\* spawn_archive_process is called only in an iteration with a full
\* refresh, with archiving configured and active, internally or
\* externally.
ArchivingFlag ==
    [][/\ (pc' \in {"top", "getch"} /\ ExternalArchiver(cfg'[1])) =>
            ~archiving_active'
       /\ (pc = "getch" /\ pc' = "top" /\ ExternalArchiver(cfg[1])) =>
            /\ archiving_active' = archiving_active
            /\ pressed_key' = "a" => external'.archiver = ~external.archiver
       /\ (pc = "getch" /\ pc' = "top" /\ ~should_use_external_archiver(cfg[1]).raised
                /\ ~ExternalArchiver(cfg[1])) =>
            archiving_active' = IF pressed_key' = "a" THEN ~archiving_active
                                ELSE archiving_active
       /\ (IterationDone /\ iteration'.spawned) =>
            /\ iteration'.full
            /\ cfg[1].archiving
            /\ archiving_active \/ (ExternalArchiver(cfg[1]) /\ external.archiver)]_vars

====
